---- MODULE Spec2Model ----
(***************************************************************************)
(* Model of the Drive-to-Sheet ingestion pipeline of src/app.py            *)
(* (DocAutomation.process_drive_to_sheet_workflow and the helpers it       *)
(* calls): Dedup Index, listing, filter, cap, header reconciliation,       *)
(* download, retry-wrapped extraction, normalization, append with retry.   *)
(* The scheduler of main() calls the pipeline with skip_existing=True.     *)
(* Behind it: the Attachment Harvester (sanitize_filename,                  *)
(* upload_to_drive, extract_attachments_from_email,                        *)
(* process_mail_to_drive_workflow) and the Run Coordinator                 *)
(* (run_scheduled_workflow).                                               *)
(***************************************************************************)
EXTENDS Integers, Sequences, FiniteSets, TLC

(***************************************************************************)
(* Bounds of the model.                                                    *)
(***************************************************************************)
\* number of pipeline invocations explored
MaxRuns == 2
\* largest number of files one listing call returns
MaxListing == 2
\* number of calls to the outside (sheet, Drive, extraction agent) that fail
\* in one behaviour
MaxFaults == 3
\* largest number of items of a payload, of chunks of a list payload and of
\* data rows of a sheet handed to a function applied on its own
MaxItems == 2
CapFiles == 1

(***************************************************************************)
(* Program constants.                                                      *)
(***************************************************************************)
\* CONFIG['sheet']['max_files']
ConfigMaxFiles == 1000
\* safe_extract(..., retries=3)
retries == 3
\* append_to_google_sheet: max_retries = 3
max_retries == 3
\* get_sheet_headers reads A1:Z1; update_headers addresses chr(64 + n), a
\* letter only for n <= 26
LastColumn == 26

\* sanitize_filename: a name longer than NameCap is cut, its base to BaseCap
NameCap == 100

BaseCap == 95

(***************************************************************************)
(* Python values.  A str is its text without surrounding whitespace (s)    *)
(* and a flag telling whether whitespace surrounds it (ws), so strip() is  *)
(* computed and not assumed to be the identity.                            *)
(***************************************************************************)
PyNone == [t |-> "none"]
PyStr(c, w) == [t |-> "str", s |-> c, ws |-> w]
PyInt(n) == [t |-> "int", n |-> n]
PyDict(m) == [t |-> "dict", m |-> m]
PyList(l) == [t |-> "list", l |-> l]
S(c) == PyStr(c, FALSE)
Empty == S("")

\* str.strip()
Strip(v) == PyStr(v.s, FALSE)

\* truth value of a str
Truthy(v) == v.s /= "" \/ v.ws

\* str(value) for the values the payloads of the model hold
Str(v) ==
    CASE v.t = "str" -> v
      [] v.t = "int" -> S(ToString(v.n))
      [] v.t = "none" -> S("None")
      [] OTHER -> S("<repr>")

\* the cleaning loop of process_extracted_data / create_base_row
Clean(v) ==
    IF v.t = "none" THEN Empty
    ELSE IF v.t = "int" THEN Str(v)
    ELSE IF v = Empty THEN Empty
    ELSE Strip(Str(v))

\* d.get(k1, d.get(k2, ... d.get(kn, "")))
RECURSIVE GetChain(_, _)
GetChain(d, chain) ==
    IF chain = <<>> THEN Empty
    ELSE IF Head(chain) \in DOMAIN d THEN d[Head(chain)]
    ELSE GetChain(d, Tail(chain))

(***************************************************************************)
(* Row Normalizer.                                                         *)
(***************************************************************************)
\* doc_data of process_extracted_data
DocData(d) ==
    [grn_date |-> GetChain(d, <<"grn_date", "date", "document_date">>),
     supplier |-> GetChain(d, <<"supplier", "vendor_name", "vendor">>),
     po_number |-> GetChain(d, <<"po_number", "purchase_order_number", "po_no">>),
     shipping_address |-> GetChain(d, <<"shipping_address", "delivery_address", "address">>),
     vendor_invoice_number |->
         GetChain(d, <<"vendor_invoice_number", "invoice_number", "invoice_no">>)]

\* time.strftime("%Y-%m-%d %H:%M:%S")
NowStr == S("now")

\* the row dict built for one item, before cleaning
ItemRowRaw(doc, item, file_info) ==
    ("grn_date" :> doc.grn_date) @@
    ("grndate" :> doc.grn_date) @@
    ("source_file" :> file_info.name) @@
    ("processed_date" :> NowStr) @@
    ("supplier" :> doc.supplier) @@
    ("po_number" :> doc.po_number) @@
    ("shipping_address" :> doc.shipping_address) @@
    ("vendor_invoice_number" :> doc.vendor_invoice_number) @@
    ("drive_file_id" :> S(file_info.id)) @@
    ("item_description" :> GetChain(item,
        <<"item_description", "description", "product_description", "product_name">>)) @@
    ("rcv_qty" :> GetChain(item, <<"rcv_qty", "received_quantity", "received_qty">>)) @@
    ("ord_qty" :> GetChain(item,
        <<"ord_qty", "ordered_quantity", "ordered_qty", "quantity", "qty">>)) @@
    ("ord.qty" :> GetChain(item, <<"ord.qty", "ord_qty", "ordered_quantity">>)) @@
    ("uom" :> GetChain(item, <<"uom", "unit_of_measure", "unit">>)) @@
    ("sku" :> GetChain(item, <<"sku", "sku_code", "item_code">>)) @@
    ("variant_ean" :> GetChain(item, <<"variant_ean", "ean", "barcode">>)) @@
    ("variant.ean" :> GetChain(item, <<"variant.ean", "ean", "barcode">>)) @@
    ("hsn_code" :> GetChain(item, <<"hsn_code", "hsn", "tax_code">>)) @@
    ("unit_cost" :> GetChain(item,
        <<"unit_cost", "unit_price", "price_per_unit", "rate">>)) @@
    ("tax_amount" :> GetChain(item, <<"tax_amount", "tax">>)) @@
    ("tax amount" :> GetChain(item, <<"tax amount", "tax_amount", "tax">>)) @@
    ("tax_percentage" :> GetChain(item,
        <<"tax_percentage", "tax_percent", "tax_rate">>)) @@
    ("mrp" :> GetChain(item, <<"mrp", "maximum_retail_price", "retail_price">>)) @@
    ("net_value" :> GetChain(item,
        <<"net_value", "net_amount", "total_amount", "amount">>))

\* the row dict of create_base_row, before cleaning
BaseRowRaw(d, file_info) ==
    ("grn_date" :> GetChain(d, <<"grn_date", "date">>)) @@
    ("grndate" :> GetChain(d, <<"grn_date", "date">>)) @@
    ("source_file" :> file_info.name) @@
    ("processed_date" :> NowStr) @@
    ("supplier" :> GetChain(d, <<"supplier", "vendor_name">>)) @@
    ("po_number" :> GetChain(d, <<"po_number", "purchase_order_number">>)) @@
    ("shipping_address" :> GetChain(d, <<"shipping_address", "delivery_address">>)) @@
    ("vendor_invoice_number" :>
        GetChain(d, <<"vendor_invoice_number", "invoice_number">>)) @@
    ("drive_file_id" :> S(file_info.id)) @@
    ("item_description" :> GetChain(d, <<"item_description">>)) @@
    ("rcv_qty" :> GetChain(d, <<"rcv_qty">>)) @@
    ("ord_qty" :> GetChain(d, <<"ord_qty", "quantity">>)) @@
    ("ord.qty" :> GetChain(d, <<"ord_qty">>)) @@
    ("uom" :> GetChain(d, <<"uom">>)) @@
    ("sku" :> GetChain(d, <<"sku">>)) @@
    ("variant_ean" :> GetChain(d, <<"ean">>)) @@
    ("variant.ean" :> GetChain(d, <<"ean">>)) @@
    ("hsn_code" :> GetChain(d, <<"hsn_code">>)) @@
    ("unit_cost" :> GetChain(d, <<"unit_cost">>)) @@
    ("tax_amount" :> GetChain(d, <<"tax_amount">>)) @@
    ("tax amount" :> GetChain(d, <<"tax_amount">>)) @@
    ("tax_percentage" :> GetChain(d, <<"tax_percentage">>)) @@
    ("mrp" :> GetChain(d, <<"mrp">>)) @@
    ("net_value" :> GetChain(d, <<"net_value">>))

\* cleaned_row: every value of the row dict cleaned
CleanRow(row) == [k \in DOMAIN row |-> Clean(row[k])]

create_base_row(d, file_info) == CleanRow(BaseRowRaw(d, file_info))

\* the fixed order in which the item-container keys are probed
ItemKeys == <<"items", "product_items", "line_items", "products", "grn_items", "line_items">>

\* FindItems stopping at the first probed key that is present, list or not
RECURSIVE FindItemsFirstPresent(_, _)
FindItemsFirstPresent(d, keys) ==
    IF keys = <<>> THEN <<>>
    ELSE IF Head(keys) \in DOMAIN d
         THEN (IF d[Head(keys)].t = "list" THEN d[Head(keys)].l ELSE <<>>)
    ELSE FindItemsFirstPresent(d, Tail(keys))

\* the first probed key that is present and holds a list gives the items
RECURSIVE FindItems(_, _)
FindItems(d, keys) ==
    IF keys = <<>> THEN <<>>
    ELSE IF Head(keys) \in DOMAIN d /\ d[Head(keys)].t = "list" THEN d[Head(keys)].l
    ELSE FindItems(d, Tail(keys))

\* ItemRows resolving the item columns of every row from the first item
ItemRowsFromFirst(doc, items, file_info) ==
    LET maps == SelectSeq(items, LAMBDA x : x.t = "dict")
    IN [j \in 1..Len(maps) |-> CleanRow(ItemRowRaw(doc, maps[1].m, file_info))]

\* the loop over the items: one cleaned row per item that is a dict
RECURSIVE ItemRows(_, _, _)
ItemRows(doc, items, file_info) ==
    IF items = <<>> THEN <<>>
    ELSE IF Head(items).t /= "dict" THEN ItemRows(doc, Tail(items), file_info)
    ELSE <<CleanRow(ItemRowRaw(doc, Head(items).m, file_info))>>
         \o ItemRows(doc, Tail(items), file_info)

\* process_extracted_data without the single row for a dict without items
process_extracted_dataItemsOnly(d, file_info) ==
    ItemRows(DocData(d), FindItems(d, ItemKeys), file_info)

\* process_extracted_data for a dict (d is the dict's mapping)
process_extracted_data(d, file_info) ==
    LET items == FindItems(d, ItemKeys)
    IN IF items = <<>> THEN <<create_base_row(d, file_info)>>
       ELSE ItemRows(DocData(d), items, file_info)

(***************************************************************************)
(* The pipeline's view of one extraction result (lines 1077-1094).         *)
(***************************************************************************)
\* ChunkRows assigning the rows of a chunk where the code extends the list:
\* the rows of the last dict chunk alone
RECURSIVE ChunkRowsLastOnly(_, _)
ChunkRowsLastOnly(chunks, file_info) ==
    IF chunks = <<>> THEN <<>>
    ELSE IF chunks[Len(chunks)].t = "dict"
         THEN process_extracted_data(chunks[Len(chunks)].m, file_info)
         ELSE ChunkRowsLastOnly(SubSeq(chunks, 1, Len(chunks) - 1), file_info)

\* the rows of a list payload: the rows of its dict chunks, in order
RECURSIVE ChunkRows(_, _)
ChunkRows(chunks, file_info) ==
    IF chunks = <<>> THEN <<>>
    ELSE IF Head(chunks).t = "dict"
         THEN process_extracted_data(Head(chunks).m, file_info)
              \o ChunkRows(Tail(chunks), file_info)
         ELSE ChunkRows(Tail(chunks), file_info)

\* all_rows, or raised when process_extracted_data is handed a value that
\* has no keys() (neither a list nor a dict)
AllRows(data, file_info) ==
    IF data.t = "list" THEN [raised |-> FALSE, rows |-> ChunkRows(data.l, file_info)]
    ELSE IF data.t = "dict"
         THEN [raised |-> FALSE, rows |-> process_extracted_data(data.m, file_info)]
    ELSE [raised |-> TRUE, rows |-> <<>>]

\* row_dict.get(header, ""): the header cell is a key of the row dict only
\* when it is exactly the key's text
RowGet(row, h) == IF ~h.ws /\ h.s \in DOMAIN row THEN row[h.s] ELSE Empty

\* SheetRows leaving out the header columns a row dict has no key for
SheetRowsKnownOnly(rows, hdrs) ==
    [i \in 1..Len(rows) |->
        LET known == SelectSeq(hdrs, LAMBDA h : ~h.ws /\ h.s \in DOMAIN rows[i])
        IN [j \in 1..Len(known) |-> Strip(Str(RowGet(rows[i], known[j])))]]

\* sheet_rows: one vector per row dict, one entry per header of the run
SheetRows(rows, hdrs) ==
    [i \in 1..Len(rows) |->
        [j \in 1..Len(hdrs) |-> Strip(Str(RowGet(rows[i], hdrs[j])))]]

(***************************************************************************)
(* Store (sheet) access.  The sheet is the sequence of its rows; row 1 is  *)
(* what a read takes for the header.                                       *)
(***************************************************************************)
Range(s) == {s[i] : i \in 1..Len(s)}
Min(a, b) == IF a < b THEN a ELSE b

\* headers.index(x)
IndexOf(s, x) == CHOOSE i \in 1..Len(s) : s[i] = x /\ \A j \in 1..(i - 1) : s[j] /= x

\* get_existing_source_files scanning the header row as a data row
get_existing_source_filesFromHeader(values, ok) ==
    IF ~ok THEN {}
    ELSE IF values = <<>> THEN {}
    ELSE IF S("source_file") \notin Range(values[1]) THEN {}
    ELSE LET name_index == IndexOf(values[1], S("source_file"))
         IN {values[r][name_index] :
                r \in {q \in 1..Len(values) :
                          Len(values[q]) >= name_index /\ Truthy(values[q][name_index])}}

\* get_existing_source_files: ok = the read did not raise
get_existing_source_files(values, ok) ==
    IF ~ok THEN {}
    ELSE IF values = <<>> THEN {}
    ELSE IF S("source_file") \notin Range(values[1]) THEN {}
    ELSE LET name_index == IndexOf(values[1], S("source_file"))
         IN {values[r][name_index] :
                r \in {q \in 2..Len(values) :
                          Len(values[q]) >= name_index /\ Truthy(values[q][name_index])}}

\* get_sheet_headers: row 1 of the range A1:Z1, or [] when the read raised
get_sheet_headers(values, ok) ==
    IF ~ok \/ values = <<>> THEN <<>>
    ELSE SubSeq(values[1], 1, Min(LastColumn, Len(values[1])))

\* the range A1:{chr(64 + len)}1 names a column only up to Z
RangeAddressable(new_headers) == Len(new_headers) <= LastColumn

\* update_headers: the row written over the first len(new_headers) cells of
\* row 1; nothing is written when the call raises
update_headers(values, new_headers, ok) ==
    IF ~(ok /\ RangeAddressable(new_headers)) THEN values
    ELSE IF values = <<>> THEN <<new_headers>>
    ELSE [values EXCEPT ![1] =
             new_headers \o SubSeq(values[1], Len(new_headers) + 1, Len(values[1]))]

expected_columns ==
    <<S("item_description"), S("vendor_invoice_number"), S("rcv_qty"), S("grn_date"),
      S("source_file"), S("processed_date"), S("supplier"), S("uom"), S("variant_ean"),
      S("hsn_code"), S("ord_qty"), S("po_number"), S("tax_amount"), S("shipping_address"),
      S("sku"), S("unit_cost"), S("tax_percentage"), S("drive_file_id"), S("mrp"),
      S("net_value"), S("grndate"), S("variant.ean"), S("ord.qty"), S("tax amount")>>

\* missing_columns
MissingColumns(hdrs) == SelectSeq(expected_columns, LAMBDA col : col \notin Range(hdrs))

\* the header list the run goes on with (lines 1041-1052)
ReconciledHeaders(hdrs) ==
    IF hdrs = <<>> THEN expected_columns
    ELSE hdrs \o MissingColumns(hdrs)

\* whether reconciliation calls update_headers
HeaderWriteNeeded(hdrs) == hdrs = <<>> \/ MissingColumns(hdrs) /= <<>>

\* FilterExisting giving the kept files oldest first
FilterExistingOldestFirst(files, names) ==
    LET kept == SelectSeq(files, LAMBDA f : f.name \notin names)
    IN [i \in 1..Len(kept) |-> kept[Len(kept) + 1 - i]]

\* pdf_files = [f for f in pdf_files if f['name'] not in existing_names]
FilterExisting(files, names) == SelectSeq(files, LAMBDA f : f.name \notin names)

\* Cap taking the last max_files files
CapFromEnd(files, m) == SubSeq(files, Len(files) - Min(m, Len(files)) + 1, Len(files))

\* pdf_files[:max_files]
Cap(files, m) == SubSeq(files, 1, Min(m, Len(files)))

(***************************************************************************)
(* Attachment Harvester: file names.  A file name is the sequence of its   *)
(* characters.                                                             *)
(***************************************************************************)
\* the characters of the class [<>:"/\|?*] of sanitize_filename
Forbidden == {"<", ">", ":", "\"", "/", "\\", "|", "?", "*"}

\* re.sub(r'[<>:"/\\|?*]', '_', filename)
Substitute(filename) ==
    [i \in 1..Len(filename) |-> IF filename[i] \in Forbidden THEN "_" ELSE filename[i]]

\* the position of the last dot of a name, 0 when it has none
LastDot(name) ==
    LET dots == {i \in 1..Len(name) : name[i] = "."}
    IN IF dots = {} THEN 0 ELSE CHOOSE i \in dots : \A j \in dots : j <= i

\* '.'.join(name.split('.')[:-1]) and name.split('.')[-1] of a name with a dot
BaseName(name) == SubSeq(name, 1, LastDot(name) - 1)

Extension(name) == SubSeq(name, LastDot(name) + 1, Len(name))

\* s[:n]
Prefix(s, n) == SubSeq(s, 1, Min(n, Len(s)))

\* sanitize_filename
sanitize_filename(filename) ==
    LET cleaned == Substitute(filename)
    IN IF Len(cleaned) > NameCap
       THEN (IF LastDot(cleaned) > 0
             THEN Prefix(BaseName(cleaned), BaseCap) \o <<".">> \o Extension(cleaned)
             ELSE Prefix(cleaned, NameCap))
       ELSE cleaned

(***************************************************************************)
(* Attachment Harvester: the walk over the parts of a message.  A node of  *)
(* the payload tree is a record: has_parts and parts ("parts" in payload   *)
(* and its value), filename, att (the body has an attachmentId), and what  *)
(* the outside answers for it: fetch (attachments().get returns data,      *)
(* returns no data, or raises) and upload (the Drive calls of              *)
(* upload_to_drive return, or one of them raises).                         *)
(***************************************************************************)
ZeroPartStats == [success |-> 0, skipped |-> 0, failed |-> 0, total |-> 0]

\* stats[k] += part_stats[k] for the four counts
AddStats(a, b) ==
    [success |-> a.success + b.success, skipped |-> a.skipped + b.skipped,
     failed |-> a.failed + b.failed, total |-> a.total + b.total]

\* str.lower() for the characters the names of the model hold
Lower(s) ==
    [i \in 1..Len(s) |->
        CASE s[i] = "G" -> "g" [] s[i] = "R" -> "r" [] s[i] = "N" -> "n"
          [] s[i] = "D" -> "d" [] OTHER -> s[i]]

\* sub in s
Contains(s, sub) ==
    \E i \in 0..(Len(s) - Len(sub)) : SubSeq(s, i + 1, i + Len(sub)) = sub

\* upload_to_drive uploading without looking for the name in the folder
upload_to_driveUnchecked(files, filename, ok) ==
    IF ~ok THEN [success |-> FALSE, files |-> files]
    ELSE [success |-> TRUE, files |-> Append(files, filename)]

\* upload_to_drive: files = the names in the target folder, ok = no Drive
\* call raised
upload_to_drive(files, filename, ok) ==
    IF ~ok THEN [success |-> FALSE, files |-> files]
    ELSE IF filename \in Range(files) THEN [success |-> TRUE, files |-> files]
    ELSE [success |-> TRUE, files |-> Append(files, filename)]

\* the node is an attachment: it has a filename and an attachmentId
IsAttachment(payload) == payload.filename /= <<>> /\ payload.att

\* the elif branch of extract_attachments_from_email: one attachment
ExtractLeaf(payload, attachment_filter, files) ==
    IF attachment_filter /= <<>> /\ ~Contains(Lower(payload.filename), Lower(attachment_filter))
    THEN [stats |-> [ZeroPartStats EXCEPT !.skipped = 1, !.total = 1], files |-> files]
    ELSE IF payload.fetch /= "data"
    THEN [stats |-> [ZeroPartStats EXCEPT !.failed = 1, !.total = 1], files |-> files]
    ELSE LET up == upload_to_drive(files, sanitize_filename(payload.filename),
                                   payload.upload = "ok")
         IN [stats |-> IF up.success
                       THEN [ZeroPartStats EXCEPT !.success = 1, !.total = 1]
                       ELSE [ZeroPartStats EXCEPT !.failed = 1, !.total = 1],
             files |-> up.files]

RECURSIVE extract_attachments_from_email(_, _, _)

\* ExtractParts keeping the stats of the last part only
RECURSIVE ExtractPartsLastOnly(_, _, _, _)
ExtractPartsLastOnly(parts, attachment_filter, files, stats) ==
    IF parts = <<>> THEN [stats |-> stats, files |-> files]
    ELSE LET r == extract_attachments_from_email(Head(parts), attachment_filter, files)
         IN ExtractPartsLastOnly(Tail(parts), attachment_filter, r.files, r.stats)

\* the loop over payload["parts"]: the stats of each part are added
RECURSIVE ExtractParts(_, _, _, _)
ExtractParts(parts, attachment_filter, files, stats) ==
    IF parts = <<>> THEN [stats |-> stats, files |-> files]
    ELSE LET r == extract_attachments_from_email(Head(parts), attachment_filter, files)
         IN ExtractParts(Tail(parts), attachment_filter, r.files, AddStats(stats, r.stats))

\* extract_attachments_from_email: the stats it returns and the names in
\* the target folder after it
extract_attachments_from_email(payload, attachment_filter, files) ==
    IF payload.has_parts THEN ExtractParts(payload.parts, attachment_filter, files, ZeroPartStats)
    ELSE IF IsAttachment(payload) THEN ExtractLeaf(payload, attachment_filter, files)
    ELSE [stats |-> ZeroPartStats, files |-> files]

(***************************************************************************)
(* The environment of the model: the files the Drive folder may hold, the  *)
(* payloads the extraction agent may return, the sheets a first run may    *)
(* find.                                                                    *)
(***************************************************************************)
\* the folder's files in listing order (orderBy createdTime desc); the first
\* two share one name, the third has a name with surrounding whitespace
AllFiles ==
    <<[id |-> "id1", name |-> S("a.pdf")],
      [id |-> "id2", name |-> S("a.pdf")],
      [id |-> "id3", name |-> PyStr("b.pdf", TRUE)]>>

\* the sub-sequence of AllFiles at the positions in the set pos
RECURSIVE SubListing(_, _)
SubListing(n, pos) ==
    IF n > Len(AllFiles) THEN <<>>
    ELSE (IF n \in pos THEN <<AllFiles[n]>> ELSE <<>>) \o SubListing(n + 1, pos)

\* the contents the folder may have: the files that are in the days_back
\* window, newest first
Listings ==
    {SubListing(1, pos) : pos \in {q \in SUBSET (1..Len(AllFiles)) : Cardinality(q) <= MaxListing}}

\* extraction results: a list of chunks (a document without items, a chunk
\* that is no dict, a document with two items) giving three rows, a document
\* whose item list holds no dict, and a result that is neither list nor dict
Payloads ==
    {PyList(<<PyDict("vendor_name" :> S("Acme")),
              S("page"),
              PyDict("line_items" :>
                  PyList(<<PyDict("qty" :> PyInt(5)), PyDict("sku" :> S("X1"))>>))>>),
     PyDict("items" :> PyList(<<S("junk")>>)),
     PyNone}

\* the sheet before the first run: empty, a complete header behind a foreign
\* column, a partial header with a foreign column, a header too wide to be
\* widened to all the canonical columns within A..Z
InitSheets ==
    {<<>>,
     <<<<S("legacy")>> \o expected_columns>>,
     <<<<S("legacy"), S("source_file")>>>>,
     <<<<S("x1"), S("x2"), S("x3")>>>>}

\* a part that is neither a container nor an attachment
NoPart ==
    [has_parts |-> FALSE, parts |-> <<>>, filename |-> <<>>, att |-> FALSE,
     fetch |-> "data", upload |-> "ok"]

\* the input of a function applied on its own, before one is chosen
NoInput ==
    [kind |-> "none", data |-> PyNone, values |-> <<>>, name |-> <<>>,
     tree |-> NoPart, files |-> <<>>]

\* total_stats before the first email
ZeroTotals ==
    [total_attachments |-> 0, successful_uploads |-> 0, skipped_attachments |-> 0,
     failed_uploads |-> 0]

\* self.stats['mail'] after __init__
ZeroMail ==
    [emails_checked |-> 0, attachments_found |-> 0, attachments_uploaded |-> 0,
     attachments_skipped |-> 0, upload_failed |-> 0]

\* the dict process_mail_to_drive_workflow returns
MailReturn(ok, checked, totals) ==
    [success |-> ok, emails_checked |-> checked,
     attachments_found |-> totals.total_attachments,
     attachments_skipped |-> totals.skipped_attachments,
     attachments_uploaded |-> totals.successful_uploads,
     upload_failed |-> totals.failed_uploads]

ZeroStats ==
    [files_found |-> 0, files_processed |-> 0, files_failed |-> 0,
     files_skipped |-> 0, rows_added |-> 0]

NoCalls == [download |-> 0, extract |-> 0, append |-> 0, pauses |-> 0]

\* run_scheduled_workflow has not returned yet
NoOutcome == [returned |-> "nothing", status |-> "", mail |-> ZeroMail, sheet |-> ZeroStats]

(***************************************************************************)
(* State.                                                                  *)
(***************************************************************************)
VARIABLES
    sheet,           \* the tabular store: its rows, row 1 first
    folder,          \* the PDF files of the Drive folder, newest first
    max_files,       \* config['max_files']
    self_stats,      \* self.stats['sheet']
    pc,              \* position of the pipeline: idle, headers, download,
                     \* extract, except, append, append_true, append_false,
                     \* finish
    stats,           \* the stats dict of the invocation (its return value)
    existing_names,  \* the Dedup Index of the invocation
    pdf_files,       \* the candidates after filter and cap
    headers,         \* the header list the invocation builds its rows with
    idx,             \* position of the document loop in pdf_files
    attempt,         \* attempt number inside safe_extract / append_to_google_sheet
    sheet_rows,      \* the batch of the current document
    run,             \* number of invocations started
    listed,          \* what list_drive_files returned to the invocation
    present,         \* the names in the store's source_file column when the
                     \* invocation started
    prev_full,       \* the invocation before listed the folder's files and
                     \* ended with each of them skipped or appended
    appended,        \* files whose batch this invocation appended, in order
    ingested,        \* names whose batch an earlier invocation appended
    calls,           \* calls issued so far for the current document
    touched,         \* ids of the files downloaded in this invocation
    exc,             \* the exception the handler of the loop body caught
    recon,           \* header reconciliations done in this invocation
    hdr_writes,      \* update_headers calls issued in this invocation
    faults,          \* calls to the outside that failed so far
    all_rows,        \* the row dicts of the current document
    written,         \* rows this invocation has appended to the store
    fn,              \* the function applied on its own: none, normalize, index
    arg,             \* the input it is applied to
    result,          \* what it returned
    drive,           \* the names of the files in the Harvester's target folder
    cpc,             \* position of run_scheduled_workflow: idle, mail, sheet,
                     \* summary
    emails,          \* the emails the Harvester has still to process
    total_stats,     \* total_stats of process_mail_to_drive_workflow
    mail_self,       \* self.stats['mail']
    mail_stats,      \* what process_mail_to_drive_workflow returned
    outcome,         \* what run_scheduled_workflow returned, nothing while
                     \* it runs
    cruns,           \* invocations of run_scheduled_workflow started
    seen,            \* the emails the Harvester's loop has been through in
                     \* this invocation
    uploaded         \* the names the Harvester created in this invocation

\* the configuration and the folder do not change
config == <<folder, max_files>>

\* the variables of a function applied on its own
pure == <<fn, arg, result>>

\* the variables of the Run Coordinator and of the Harvester
coordinator ==
    <<drive, cpc, emails, total_stats, mail_self, mail_stats, outcome, cruns, seen,
      uploaded>>

\* the Run Coordinator before its first invocation
CoordinatorIdle ==
    /\ cpc = "idle"
    /\ emails = <<>>
    /\ total_stats = ZeroTotals
    /\ mail_self = ZeroMail
    /\ mail_stats = MailReturn(FALSE, 0, ZeroTotals)
    /\ outcome = NoOutcome
    /\ cruns = 0
    /\ seen = <<>>
    /\ uploaded = {}

vars ==
    <<sheet, folder, max_files, self_stats, pc, stats, existing_names, pdf_files, headers,
      idx, attempt, sheet_rows, run, listed, present, prev_full, appended, ingested, calls,
      touched, exc, recon, hdr_writes, faults, all_rows, written, fn, arg, result,
      drive, cpc, emails, total_stats, mail_self, mail_stats, outcome, cruns, seen,
      uploaded>>

\* the state before the first invocation of a pipeline configured with
\* max_files = m, f of the failures the model explores being used up
InitWith(m, f) ==
    /\ sheet \in InitSheets
    /\ folder \in Listings
    /\ max_files = m
    /\ self_stats = ZeroStats
    /\ pc = "idle"
    /\ stats = ZeroStats
    /\ existing_names = {}
    /\ pdf_files = <<>>
    /\ headers = <<>>
    /\ idx = 0
    /\ attempt = 0
    /\ sheet_rows = <<>>
    /\ run = 0
    /\ listed = <<>>
    /\ present = {}
    /\ prev_full = FALSE
    /\ appended = <<>>
    /\ ingested = {}
    /\ calls = NoCalls
    /\ touched = {}
    /\ exc = "none"
    /\ recon = 0
    /\ hdr_writes = 0
    /\ faults = f
    /\ all_rows = <<>>
    /\ written = 0
    /\ fn = "none"
    /\ arg = NoInput
    /\ result = PyNone
    /\ drive = <<>>
    /\ CoordinatorIdle

Init == InitWith(ConfigMaxFiles, 0)

\* the calls of one step fail as the flags say (FALSE = the call fails), within
\* the number of failures the model explores
Failing(flags) ==
    LET n == Cardinality({i \in DOMAIN flags : ~flags[i]})
    IN /\ faults + n <= MaxFaults
       /\ faults' = faults + n

NamesOf(files) == {files[i].name : i \in 1..Len(files)}

\* the invocation returns after listing files and appending the batches of
\* done, with the stats st: its locals are gone, what it did is remembered in
\* prev_full and ingested
EndOfRun(files, done, st) ==
    /\ pc' = "idle"
    /\ prev_full' = (files = folder /\ st.files_found = st.files_skipped + st.files_processed)
    /\ ingested' = ingested \cup NamesOf(done)
    /\ present' = {}
    /\ existing_names' = {}
    /\ pdf_files' = <<>>
    /\ headers' = <<>>
    /\ idx' = 0
    /\ attempt' = 0
    /\ sheet_rows' = <<>>
    /\ listed' = <<>>
    /\ appended' = <<>>
    /\ calls' = NoCalls
    /\ touched' = {}
    /\ exc' = "none"
    /\ recon' = 0
    /\ hdr_writes' = 0
    /\ all_rows' = <<>>
    /\ written' = 0

\* list_drive_files: the folder's files, or [] when the listing call raised
list_drive_files(files, ok) == IF ok THEN files ELSE <<>>

(***************************************************************************)
(* process_drive_to_sheet_workflow, lines 978-1029: the setup of one       *)
(* invocation.  agentOk: LlamaParse is available and the agent was found;  *)
(* readOk: the sheet read of get_existing_source_files did not raise;      *)
(* listOk: the listing call did not raise.                                 *)
(***************************************************************************)
StartRun(agentOk, readOk, listOk) ==
    /\ pc = "idle"
    /\ run < MaxRuns
    /\ run' = run + 1
    /\ Failing(<<agentOk, readOk, listOk>>)
    /\ UNCHANGED <<sheet, config, self_stats, pure, coordinator>>
    /\ IF ~agentOk
       THEN /\ readOk /\ listOk
            /\ stats' = ZeroStats
            /\ EndOfRun(<<>>, <<>>, ZeroStats)
       ELSE LET names == get_existing_source_files(sheet, readOk)
                files == list_drive_files(folder, listOk)
                kept == FilterExisting(files, names)
                todo == Cap(kept, max_files)
                st == [ZeroStats EXCEPT !.files_found = Len(files),
                                        !.files_skipped = Len(files) - Len(kept)]
            IN /\ stats' = st
               /\ IF todo = <<>>
                  THEN EndOfRun(files, <<>>, st)
                  ELSE /\ pc' = "headers"
                       /\ existing_names' = names
                       /\ listed' = files
                       /\ present' = get_existing_source_files(sheet, TRUE)
                       /\ pdf_files' = todo
                       /\ idx' = 1
                       /\ UNCHANGED <<headers, attempt, sheet_rows, prev_full, ingested,
                                      appended, calls, touched, exc, recon,
                                      hdr_writes, all_rows, written>>

(***************************************************************************)
(* Header reconciliation, lines 1040-1054.  readOk / writeOk: the header   *)
(* read / the header write did not raise.                                  *)
(***************************************************************************)
Reconcile(readOk, writeOk) ==
    /\ pc = "headers"
    /\ Failing(<<readOk, writeOk>>)
    /\ LET hdrs == get_sheet_headers(sheet, readOk)
       IN /\ headers' = ReconciledHeaders(hdrs)
          /\ IF HeaderWriteNeeded(hdrs)
             THEN /\ sheet' = update_headers(sheet, ReconciledHeaders(hdrs), writeOk)
                  /\ hdr_writes' = hdr_writes + 1
             ELSE /\ writeOk
                  /\ sheet' = sheet
                  /\ hdr_writes' = hdr_writes
    /\ recon' = recon + 1
    /\ pc' = "download"
    /\ UNCHANGED <<config, self_stats, stats, existing_names, pdf_files, idx, attempt,
                   sheet_rows, run, listed, present, prev_full, appended, ingested, calls, touched,
                   exc, all_rows, written, pure, coordinator>>

(***************************************************************************)
(* The document loop, lines 1056-1130.                                     *)
(***************************************************************************)
\* NextDocument with the reconciliation inside the loop: the next candidate
\* starts at the header reconciliation
NextDocumentReconciling ==
    /\ idx' = idx + 1
    /\ calls' = NoCalls
    /\ all_rows' = <<>>
    /\ pc' = IF idx + 1 > Len(pdf_files) THEN "finish" ELSE "headers"

\* the for loop moves on to the next candidate, or ends
NextDocument ==
    /\ idx' = idx + 1
    /\ calls' = NoCalls
    /\ all_rows' = <<>>
    /\ pc' = IF idx + 1 > Len(pdf_files) THEN "finish" ELSE "download"

\* CountFailed with a break in place of the continue: the failure of one
\* document ends the loop
CountFailedAbort ==
    /\ stats' = [stats EXCEPT !.files_failed = @ + 1]
    /\ idx' = idx
    /\ calls' = NoCalls
    /\ all_rows' = <<>>
    /\ pc' = "finish"

\* stats['files_failed'] += 1 for the current document, then the next one
\* CountFailed without the count
CountFailedUncounted ==
    /\ stats' = stats
    /\ NextDocument

CountFailed ==
    /\ stats' = [stats EXCEPT !.files_failed = @ + 1]
    /\ NextDocument

\* an exception leaves the try block of the loop body for its handler
Raise(e) ==
    /\ pc' = "except"
    /\ exc' = e

\* ExtractExhausted with the range one attempt longer
ExtractExhaustedLate(a) == ~(a < retries + 1)

\* safe_extract gives up when the failed attempt was the last of the range
ExtractExhausted(a) == ~(a < retries)

\* AppendRetried with the comparison off by one: a fourth attempt is made
AppendRetriedOnceMore(a) == a <= max_retries

\* append_to_google_sheet sleeps and tries again only if attempt < max_retries
AppendRetried(a) == a < max_retries

\* lines 1060-1064: download_from_drive; ok = it returned bytes
Download(ok) ==
    /\ pc = "download"
    /\ Failing(<<ok>>)
    /\ touched' = touched \cup {pdf_files[idx].id}
    /\ IF ok
       THEN /\ pc' = "extract"
            /\ attempt' = 1
            /\ calls' = [calls EXCEPT !.download = @ + 1]
            /\ UNCHANGED <<stats, idx, all_rows>>
       ELSE /\ CountFailed
            /\ UNCHANGED attempt
    /\ UNCHANGED <<sheet, config, self_stats, existing_names, pdf_files, headers,
                   sheet_rows, run, listed, present, prev_full, appended, ingested, exc,
                   recon, hdr_writes, written, pure, coordinator>>

\* one attempt of safe_extract (lines 737-744) and, when it succeeds, the
\* normalization of its result into the batch (lines 1077-1109);
\* ok = agent.extract returned, data = what it returned
Extract(ok, data) ==
    /\ pc = "extract"
    /\ Failing(<<ok>>)
    /\ IF ~ok
       THEN /\ calls' = [calls EXCEPT !.extract = @ + 1]
            /\ IF ExtractExhausted(attempt)
               THEN /\ Raise("Extraction failed")
                    /\ UNCHANGED attempt
               ELSE /\ attempt' = attempt + 1
                    /\ UNCHANGED <<pc, exc>>
            /\ UNCHANGED <<idx, stats, sheet_rows, all_rows>>
       ELSE LET r == AllRows(data, pdf_files[idx])
            IN IF r.raised
               THEN /\ calls' = [calls EXCEPT !.extract = @ + 1]
                    /\ Raise("AttributeError")
                    /\ UNCHANGED <<idx, stats, attempt, sheet_rows, all_rows>>
               ELSE IF r.rows = <<>>
               THEN /\ CountFailed
                    /\ UNCHANGED <<attempt, sheet_rows, exc>>
               ELSE /\ calls' = [calls EXCEPT !.extract = @ + 1]
                    /\ all_rows' = r.rows
                    /\ sheet_rows' = SheetRows(r.rows, headers)
                    /\ attempt' = 1
                    /\ pc' = "append"
                    /\ UNCHANGED <<idx, stats, exc>>
    /\ UNCHANGED <<sheet, config, self_stats, existing_names, pdf_files, headers, run,
                   listed, present, prev_full, appended, ingested, touched, recon,
                   hdr_writes, written, pure, coordinator>>

\* lines 1128-1130: the handler of the loop body counts the document failed
HandleException ==
    /\ pc = "except"
    /\ exc' = "none"
    /\ CountFailed
    /\ UNCHANGED <<sheet, config, self_stats, existing_names, pdf_files, headers, attempt,
                   sheet_rows, run, listed, present, prev_full, appended, ingested,
                   touched, recon, hdr_writes, faults, written, pure, coordinator>>

\* AppendRows losing the last row of the batch
AppendRowsButLast(values, rows) == values \o SubSeq(rows, 1, Len(rows) - 1)

\* spreadsheets().values().append: the rows of the batch go below the rows
\* of the store, in one call
AppendRows(values, rows) == values \o rows

\* one attempt of append_to_google_sheet (lines 683-702); ok = the append
\* call returned.  The function returns True after the first call that
\* succeeds and False after the last attempt failed
AppendBatch(ok) ==
    /\ pc = "append"
    /\ Failing(<<ok>>)
    /\ IF ok
       THEN /\ sheet' = AppendRows(sheet, sheet_rows)
            /\ written' = written + Len(sheet_rows)
            /\ calls' = [calls EXCEPT !.append = @ + 1]
            /\ pc' = "append_true"
            /\ UNCHANGED attempt
       ELSE /\ IF AppendRetried(attempt)
               THEN /\ attempt' = attempt + 1
                    /\ calls' = [calls EXCEPT !.append = @ + 1, !.pauses = @ + 1]
                    /\ UNCHANGED pc
               ELSE /\ calls' = [calls EXCEPT !.append = @ + 1]
                    /\ pc' = "append_false"
                    /\ UNCHANGED attempt
            /\ UNCHANGED <<sheet, written>>
    /\ UNCHANGED <<config, self_stats, stats, existing_names, pdf_files, headers, idx,
                   sheet_rows, run, listed, present, prev_full, appended, ingested,
                   touched, exc, recon, hdr_writes, all_rows, pure, coordinator>>

\* lines 1113-1119: what the loop does with the result of the append
AfterAppend ==
    /\ pc \in {"append_true", "append_false"}
    /\ IF pc = "append_true"
       THEN /\ stats' = [stats EXCEPT !.rows_added = @ + Len(sheet_rows),
                                      !.files_processed = @ + 1]
            /\ appended' = Append(appended, pdf_files[idx])
            /\ NextDocument
       ELSE /\ CountFailed
            /\ UNCHANGED appended
    /\ UNCHANGED <<sheet, config, self_stats, existing_names, pdf_files, headers, attempt,
                   sheet_rows, run, listed, present, prev_full, ingested, touched, exc,
                   recon, hdr_writes, faults, written, pure, coordinator>>

\* lines 1132-1146: the stats are copied to self.stats and returned
Finish ==
    /\ pc = "finish"
    /\ self_stats' = stats
    /\ EndOfRun(listed, appended, stats)
    /\ UNCHANGED <<sheet, config, stats, run, faults, pure, coordinator>>

Next ==
    \/ \E agentOk \in BOOLEAN, readOk \in BOOLEAN, listOk \in BOOLEAN :
           StartRun(agentOk, readOk, listOk)
    \/ \E readOk \in BOOLEAN, writeOk \in BOOLEAN : Reconcile(readOk, writeOk)
    \/ \E ok \in BOOLEAN : Download(ok)
    \/ \E ok \in BOOLEAN, data \in Payloads : Extract(ok, data)
    \/ HandleException
    \/ \E ok \in BOOLEAN : AppendBatch(ok)
    \/ AfterAppend
    \/ Finish

Spec == Init /\ [][Next]_vars

(***************************************************************************)
(* The pipeline with a cap that the candidates can exceed: max_files is    *)
(* CapFiles, or the configured value.                                      *)
(***************************************************************************)
CapInit == \E m \in {CapFiles, ConfigMaxFiles} : InitWith(m, 0)

CapSpec == CapInit /\ [][Next]_vars

(***************************************************************************)
(* The scheduler of main (lines 1320-1330) invokes the pipeline again and  *)
(* again, for ever: when MaxRuns invocations were counted the count starts *)
(* over.  Every call of the pipeline returns, so that an invocation that   *)
(* can take a step takes one.  The cap is CapFiles; no call to the store,   *)
(* the folder or the extraction service fails (a document fails by what    *)
(* the service extracts from it); the header of the store can be widened   *)
(* to the canonical columns and the names of the listing have no           *)
(* surrounding whitespace, so that the store holds the names as they are   *)
(* listed and stops growing when they are in it.                           *)
(***************************************************************************)
LiveInit ==
    /\ InitWith(CapFiles, MaxFaults)
    /\ RangeAddressable(ReconciledHeaders(get_sheet_headers(sheet, TRUE)))
    /\ \A i \in 1..Len(folder) : ~folder[i].name.ws

Again ==
    /\ pc = "idle"
    /\ run = MaxRuns
    /\ run' = 0
    /\ UNCHANGED <<sheet, config, self_stats, pc, stats, existing_names, pdf_files, headers,
                   idx, attempt, sheet_rows, listed, present, prev_full, appended, ingested,
                   calls, touched, exc, recon, hdr_writes, faults, all_rows, written, pure,
                   coordinator>>

LiveNext == Next \/ Again

LiveSpec == LiveInit /\ [][LiveNext]_vars /\ WF_vars(LiveNext)

(***************************************************************************)
(* The normalization of one extraction result and the build of the Dedup   *)
(* Index, each applied on its own to inputs of a bounded set.              *)
(***************************************************************************)
\* the sequences over X of at most n elements
SeqsUpTo(X, n) == UNION {[1..k -> X] : k \in 0..n}

\* a dict without keys
EmptyMap == [k \in {} |-> PyNone]

\* the file the extraction results belong to
PureFile == AllFiles[3]

\* elements of an item container: maps resolved through different aliases,
\* a map whose first alias is present with None, a value with surrounding
\* whitespace under a legacy key, and an element that is no map
PureItems ==
    {PyDict("qty" :> PyInt(5)),
     PyDict("sku" :> S("X1")),
     PyDict(("ord_qty" :> PyNone) @@ ("quantity" :> PyInt(7))),
     PyDict("tax amount" :> PyStr("7", TRUE)),
     S("junk")}

\* the document-level keys of a map payload
PureDocs ==
    {EmptyMap,
     ("vendor_name" :> S("Acme")) @@ ("date" :> S("2024-01-05")) @@ ("quantity" :> PyInt(2)),
     ("supplier" :> PyNone) @@ ("vendor" :> S("V")) @@ ("sku" :> PyStr("K", TRUE)),
     ("vendor" :> S("V")) @@ ("barcode" :> S("890"))}

\* what an earlier and a later item-container key of one map may hold: a
\* value that is no list, an empty list, a list of one item
EarlierContainers ==
    {S("n/a"), PyDict("qty" :> PyInt(9)), PyList(<<>>), PyList(<<PyDict("qty" :> PyInt(5))>>)}

LaterContainers == {S("n/a"), PyList(<<PyDict("sku" :> S("X1"))>>)}

\* maps with two item-container keys
TwoContainerMaps ==
    {PyDict((ItemKeys[i] :> a) @@ (ItemKeys[i + 1] :> b)) :
        i \in 1..4, a \in EarlierContainers, b \in LaterContainers}

\* map payloads: without item container, with one under items or under
\* line_items, or with two
PureMaps ==
    {PyDict(d) : d \in PureDocs}
    \cup {PyDict(d @@ (k :> PyList(l))) :
             d \in PureDocs, k \in {"items", "line_items"}, l \in SeqsUpTo(PureItems, MaxItems)}
    \cup TwoContainerMaps

\* the chunks of list payloads
PureChunks ==
    {PyDict("vendor_name" :> S("Acme")),
     PyDict("line_items" :> PyList(<<PyDict("qty" :> PyInt(5)), PyDict("sku" :> S("X1"))>>)),
     PyDict("items" :> PyList(<<S("junk")>>)),
     S("page")}

\* the extraction results handed to the normalization
PurePayloads ==
    PureMaps \cup {PyList(l) : l \in SeqsUpTo(PureChunks, MaxItems)} \cup {PyNone, S("text")}

\* data rows: a name, a row too short to reach the name, an empty name, a
\* name of whitespace only, another name
PureRows ==
    {<<S("r"), S("a.pdf")>>, <<S("r")>>, <<S("r"), Empty>>, <<S("r"), PyStr("", TRUE)>>,
     <<S("r"), S("b.pdf")>>}

\* the sheets handed to the index build: empty, or a header with or without
\* source_file above data rows
PureSheets ==
    {<<>>}
    \cup {<<h>> \o rows :
             h \in {<<S("legacy"), S("source_file")>>, <<S("legacy"), S("file")>>},
             rows \in SeqsUpTo(PureRows, MaxItems)}

\* n times the character c
Fill(c, n) == [i \in 1..n |-> c]

\* the attachment name GRN#2024/01.pdf
ScenarioName == <<"G", "R", "N", "#", "2", "0", "2", "4", "/", "0", "1", ".", "p", "d", "f">>

DotPdf == <<".", "p", "d", "f">>

\* attachment names: the scenario, names with characters of the class in
\* the base and in the extension, names of NameCap characters and more with
\* a short extension, with a long one, with two dots, with a leading dot
\* and without a dot
PureNames ==
    {ScenarioName,
     <<"a", "<", ">", ":", "\"", "\\", "|", "?", "*", "b">> \o DotPdf,
     <<"a", ".", "p", "/", "f">>,
     <<"n", "o", "d", "o", "t">>}
    \cup {Fill("a", n) \o DotPdf : n \in {NameCap - 5, NameCap - 4, NameCap - 3, NameCap + 20}}
    \cup {Fill("a", n) \o <<".">> \o Fill("e", 10) : n \in {BaseCap - 10, BaseCap + 1}}
    \cup {Fill("a", 60) \o <<".">> \o Fill("e", 50),
          Fill("a", 50) \o <<".", "b", ".">> \o Fill("c", 60),
          <<".">> \o Fill("a", NameCap + 20),
          Fill("a", NameCap), Fill("a", NameCap + 1)}

\* attachment names with and without GRN in them
GrnName == <<"G", "R", "N", "1">> \o DotPdf

InvName == <<"i", "n", "v">> \o DotPdf

\* an attachment part
Leaf(name, f, u) == [NoPart EXCEPT !.filename = name, !.att = TRUE, !.fetch = f, !.upload = u]

\* a container part
Node(ps) == [NoPart EXCEPT !.has_parts = TRUE, !.parts = ps]

\* the parts without parts: attachments whose download and upload go well
\* or fail, an attachment with another name, the text of the message
PureLeaves ==
    {Leaf(GrnName, "data", "ok"), Leaf(GrnName, "raise", "ok"), Leaf(GrnName, "empty", "ok"),
     Leaf(GrnName, "data", "raise"), Leaf(InvName, "data", "ok"), NoPart}

\* payload trees of depth up to three, closed under taking a part; the last
\* one is a container that carries a filename and an attachmentId itself
PureTrees ==
    PureLeaves
    \cup {Node(ps) : ps \in SeqsUpTo(PureLeaves, MaxItems)}
    \cup {Node(<<a, b>>) :
             a \in {Node(<<>>), Node(<<Leaf(GrnName, "data", "ok"), Leaf(GrnName, "empty", "ok")>>)},
             b \in PureLeaves \cup {Node(<<Leaf(GrnName, "data", "ok")>>)}}
    \cup {[Leaf(GrnName, "data", "ok") EXCEPT !.has_parts = TRUE,
                                              !.parts = <<Leaf(InvName, "data", "ok")>>]}

\* the attachment_filter of the call: none (the configured one) or grn
PureFilters == {<<>>, <<"g", "r", "n">>}

\* the names in the target folder before the call
PureFolders == {<<>>, <<GrnName>>}

\* an input is an extraction result, the values of a sheet, a file name or
\* a payload tree with the filter and the folder of the call
PureInputs ==
    {[NoInput EXCEPT !.kind = "payload", !.data = x] : x \in PurePayloads}
    \cup {[NoInput EXCEPT !.kind = "sheet", !.values = x] : x \in PureSheets}
    \cup {[NoInput EXCEPT !.kind = "name", !.name = x] : x \in PureNames}
    \cup {[NoInput EXCEPT !.kind = "tree", !.tree = x, !.name = f, !.files = d] :
             x \in PureTrees, f \in PureFilters, d \in PureFolders}

PureInit ==
    /\ sheet = <<>>
    /\ folder = <<>>
    /\ max_files = ConfigMaxFiles
    /\ self_stats = ZeroStats
    /\ pc = "idle"
    /\ stats = ZeroStats
    /\ existing_names = {}
    /\ pdf_files = <<>>
    /\ headers = <<>>
    /\ idx = 0
    /\ attempt = 0
    /\ sheet_rows = <<>>
    /\ run = 0
    /\ listed = <<>>
    /\ present = {}
    /\ prev_full = FALSE
    /\ appended = <<>>
    /\ ingested = {}
    /\ calls = NoCalls
    /\ touched = {}
    /\ exc = "none"
    /\ recon = 0
    /\ hdr_writes = 0
    /\ faults = 0
    /\ all_rows = <<>>
    /\ written = 0
    /\ fn = "none"
    /\ arg \in PureInputs
    /\ result = PyNone
    /\ drive = <<>>
    /\ CoordinatorIdle

\* the pipeline's variables without the variables of pure
pipeline ==
    <<sheet, folder, max_files, self_stats, pc, stats, existing_names, pdf_files, headers,
      idx, attempt, sheet_rows, run, listed, present, prev_full, appended, ingested, calls,
      touched, exc, recon, hdr_writes, faults, all_rows, written>>

\* lines 1077-1089 applied to the extraction result arg.data
Normalize ==
    /\ fn = "none"
    /\ arg.kind = "payload"
    /\ fn' = "normalize"
    /\ result' = AllRows(arg.data, PureFile)
    /\ UNCHANGED <<arg, pipeline, coordinator>>

\* get_existing_source_files applied to what the sheet read returned, or to
\* a read that raised
BuildIndex(ok) ==
    /\ fn = "none"
    /\ arg.kind = "sheet"
    /\ fn' = IF ok THEN "index" ELSE "index_failed"
    /\ result' = get_existing_source_files(arg.values, ok)
    /\ UNCHANGED <<arg, pipeline, coordinator>>

\* sanitize_filename applied to the attachment name arg.name
Sanitize ==
    /\ fn = "none"
    /\ arg.kind = "name"
    /\ fn' = "sanitize"
    /\ result' = sanitize_filename(arg.name)
    /\ UNCHANGED <<arg, pipeline, coordinator>>

\* extract_attachments_from_email applied to the payload tree arg.tree with
\* the attachment_filter arg.name and the target folder holding arg.files
Harvest ==
    /\ fn = "none"
    /\ arg.kind = "tree"
    /\ fn' = "harvest"
    /\ result' = extract_attachments_from_email(arg.tree, arg.name, arg.files)
    /\ UNCHANGED <<arg, pipeline, coordinator>>

PureNext ==
    \/ Normalize
    \/ \E ok \in BOOLEAN : BuildIndex(ok)
    \/ Sanitize
    \/ Harvest

PureSpec == PureInit /\ [][PureNext]_vars

(***************************************************************************)
(* The Run Coordinator (run_scheduled_workflow) with the Harvester         *)
(* (process_mail_to_drive_workflow) step by step.  The Ingestion Pipeline  *)
(* it calls next is the subject of Spec; here its invocation is one step   *)
(* that gives the stats it returns and tells whether it reached the copy   *)
(* to self.stats.  The workflow log is not part of the state.              *)
(***************************************************************************)
\* CONFIG['mail']['attachment_filter']
ConfigFilter == <<>>

\* str.upper() for the characters the subjects of the model hold
Upper(s) ==
    [i \in 1..Len(s) |->
        CASE s[i] = "g" -> "G" [] s[i] = "r" -> "R" [] s[i] = "n" -> "N"
          [] s[i] = "d" -> "D" [] OTHER -> s[i]]

\* two attachment names that sanitize to the same name
SlashName == <<"G", "R", "N", "/", "2">> \o DotPdf

ColonName == <<"G", "R", "N", ":", "2">> \o DotPdf

\* an email: its subject, whether its message has a payload, the payload
Email(subj, p, tr) == [subject |-> subj, has_payload |-> p, tree |-> tr]

\* the emails a search may return
CoordEmails ==
    {Email(<<"g", "r", "n", " ", "1">>, TRUE, Leaf(GrnName, "data", "ok")),
     Email(<<"G", "R", "N">>, TRUE,
           Node(<<Leaf(SlashName, "data", "ok"), Leaf(ColonName, "data", "ok")>>)),
     Email(<<"G", "R", "N">>, TRUE,
           Node(<<Leaf(GrnName, "data", "raise"), Leaf(InvName, "empty", "ok")>>)),
     Email(<<"G", "R", "N", " ", "g", "d", "n">>, TRUE, Leaf(InvName, "data", "ok")),
     Email(<<"i", "n", "v">>, TRUE, Leaf(InvName, "data", "ok")),
     Email(<<"G", "R", "N">>, FALSE, NoPart)}

\* what one invocation of the pipeline that listed n files gives the
\* coordinator: the stats it returns and whether it got to the copy of lines
\* 1132-1137.  It returns before the loop (all files skipped), or one file
\* is processed or failed and the others are skipped
SheetReturns(n) ==
    {[stats |-> [ZeroStats EXCEPT !.files_found = n, !.files_skipped = n],
      copied |-> FALSE]}
    \cup (IF n = 0 THEN {}
          ELSE {[stats |-> [ZeroStats EXCEPT !.files_found = n, !.files_skipped = n - 1,
                                             !.files_processed = 1, !.rows_added = 3],
                 copied |-> TRUE],
                [stats |-> [ZeroStats EXCEPT !.files_found = n, !.files_skipped = n - 1,
                                             !.files_failed = 1],
                 copied |-> TRUE]})

\* the target folder before the first invocation: it holds no name twice
CoordFolders == {<<>>, <<GrnName>>}

CoordInit ==
    /\ sheet = <<>>
    /\ folder = <<>>
    /\ max_files = ConfigMaxFiles
    /\ self_stats = ZeroStats
    /\ pc = "idle"
    /\ stats = ZeroStats
    /\ existing_names = {}
    /\ pdf_files = <<>>
    /\ headers = <<>>
    /\ idx = 0
    /\ attempt = 0
    /\ sheet_rows = <<>>
    /\ run = 0
    /\ listed = <<>>
    /\ present = {}
    /\ prev_full = FALSE
    /\ appended = <<>>
    /\ ingested = {}
    /\ calls = NoCalls
    /\ touched = {}
    /\ exc = "none"
    /\ recon = 0
    /\ hdr_writes = 0
    /\ faults = 0
    /\ all_rows = <<>>
    /\ written = 0
    /\ fn = "none"
    /\ arg = NoInput
    /\ result = PyNone
    /\ drive \in CoordFolders
    /\ CoordinatorIdle

\* the pipeline's variables without the stats it returns and self.stats
store_side ==
    <<sheet, folder, max_files, pc, existing_names, pdf_files, headers, idx, attempt,
      sheet_rows, run, present, prev_full, appended, ingested, calls, touched, exc,
      recon, hdr_writes, faults, all_rows, written>>

\* run_scheduled_workflow up to the loop over the emails (lines 1203-1216,
\* 483-531): searchOk = the search call did not raise, found = what it found
StartWorkflow(searchOk, found) ==
    /\ cpc = "idle"
    /\ cruns < MaxRuns
    /\ cruns' = cruns + 1
    /\ searchOk \/ found = <<>>
    /\ mail_self' = [mail_self EXCEPT !.emails_checked = Len(found)]
    /\ total_stats' = ZeroTotals
    /\ emails' = found
    /\ seen' = <<>>
    /\ uploaded' = {}
    /\ outcome' = NoOutcome
    /\ IF found = <<>>
       THEN /\ mail_stats' = MailReturn(TRUE, 0, ZeroTotals)
            /\ cpc' = "sheet"
       ELSE /\ cpc' = "mail"
            /\ UNCHANGED mail_stats
    /\ UNCHANGED <<drive, pure, pipeline>>

\* SubjectPasses without the test for GDN
SubjectPassesGrnOnly(subject) == Contains(subject, <<"G", "R", "N">>)

\* lines 543-551: the upper-cased subject holds GRN and does not hold GDN
SubjectPasses(subject) ==
    /\ ~Contains(subject, <<"G", "D", "N">>)
    /\ Contains(subject, <<"G", "R", "N">>)

\* one pass of the loop over the emails (lines 533-572): detailsOk =
\* get_email_details returned the headers, messageOk = messages().get
\* did not raise
ProcessEmail(detailsOk, messageOk) ==
    /\ cpc = "mail"
    /\ emails /= <<>>
    /\ emails' = Tail(emails)
    /\ seen' = Append(seen, Head(emails))
    /\ LET email == Head(emails)
           subject == Upper(email.subject)
           passed == detailsOk /\ SubjectPasses(subject)
       IN IF ~passed
          THEN /\ messageOk
               /\ UNCHANGED <<total_stats, drive, uploaded>>
          ELSE IF ~messageOk
          THEN /\ total_stats' = [total_stats EXCEPT !.failed_uploads = @ + 1]
               /\ UNCHANGED <<drive, uploaded>>
          ELSE IF ~email.has_payload
          THEN UNCHANGED <<total_stats, drive, uploaded>>
          ELSE LET r == extract_attachments_from_email(email.tree, ConfigFilter, drive)
               IN /\ total_stats' =
                         [total_attachments |-> total_stats.total_attachments + r.stats.total,
                          successful_uploads |-> total_stats.successful_uploads + r.stats.success,
                          skipped_attachments |-> total_stats.skipped_attachments + r.stats.skipped,
                          failed_uploads |-> total_stats.failed_uploads + r.stats.failed]
                  /\ drive' = r.files
                  /\ uploaded' = uploaded \cup (Range(r.files) \ Range(drive))
    /\ UNCHANGED <<cpc, mail_self, mail_stats, outcome, cruns, pure, pipeline>>

\* lines 574-597: the totals go to self.stats['mail'] and are returned
FinishMail ==
    /\ cpc = "mail"
    /\ emails = <<>>
    /\ mail_self' = [mail_self EXCEPT !.attachments_found = total_stats.total_attachments,
                                      !.attachments_uploaded = total_stats.successful_uploads,
                                      !.attachments_skipped = total_stats.skipped_attachments,
                                      !.upload_failed = total_stats.failed_uploads]
    /\ mail_stats' = MailReturn(TRUE, mail_self.emails_checked, total_stats)
    /\ cpc' = "sheet"
    /\ UNCHANGED <<drive, emails, total_stats, outcome, cruns, seen, uploaded, pure,
                   pipeline>>

\* lines 599-608: an exception raised in the Harvester outside the handler
\* of the loop over the emails ends it with success False and zero counts
MailRaises ==
    /\ cpc = "mail"
    /\ mail_stats' = MailReturn(FALSE, 0, ZeroTotals)
    /\ cpc' = "sheet"
    /\ UNCHANGED <<drive, emails, total_stats, mail_self, outcome, cruns, seen, uploaded,
                   pure, pipeline>>

\* s[::-1]
Reverse(s) == [i \in 1..Len(s) |-> s[Len(s) + 1 - i]]

\* QueryMatches giving the first file of the listing only
QueryMatchesFirstOnly(names, pdf) ==
    LET all == SelectSeq(Reverse(names), LAMBDA n : n \in pdf)
    IN SubSeq(all, 1, Min(1, Len(all)))

\* the files of the folder that match the query of line 614 (pdf = the names
\* the storage holds as application/pdf, created inside the window), in the
\* order of line 622: newest first
QueryMatches(names, pdf) == SelectSeq(Reverse(names), LAMBDA n : n \in pdf)

\* the candidate listing of the pipeline.  agentOk = the extraction agent
\* was found (lines 978-1003; without it the pipeline returns before it
\* lists), listOk = the listing call did not raise, pdf = the names that
\* match the query
CandidateListing(agentOk, listOk, pdf) ==
    IF agentOk THEN list_drive_files(QueryMatches(drive, pdf), listOk) ELSE <<>>

\* line 1228: the pipeline runs, lists the folder and returns r.stats
DriveToSheet(r, agentOk, listOk, pdf) ==
    /\ cpc = "sheet"
    /\ listed' = CandidateListing(agentOk, listOk, pdf)
    /\ r \in SheetReturns(Len(listed'))
    /\ stats' = r.stats
    /\ self_stats' = IF r.copied THEN r.stats ELSE self_stats
    /\ cpc' = "summary"
    /\ UNCHANGED <<drive, emails, total_stats, mail_self, mail_stats, outcome, cruns, seen,
                   uploaded, pure, store_side>>

\* run_scheduled_workflow returns: its local values are gone
Returned ==
    /\ cpc' = "idle"
    /\ total_stats' = ZeroTotals
    /\ mail_stats' = MailReturn(FALSE, 0, ZeroTotals)
    /\ seen' = <<>>
    /\ uploaded' = {}
    /\ listed' = <<>>
    /\ stats' = ZeroStats

\* lines 1248-1284: the summary is built from self.stats and returned
Summarize ==
    /\ cpc = "summary"
    /\ outcome' = [returned |-> "summary",
                   status |-> IF mail_stats.success \/ stats.files_processed > 0
                              THEN "Completed Successfully" ELSE "Partially Completed",
                   mail |-> mail_self,
                   sheet |-> self_stats]
    /\ Returned
    /\ UNCHANGED <<drive, emails, mail_self, cruns, pure, self_stats, store_side>>

\* lines 1286-1288: an exception raised by a statement of the body outside
\* the handlers of the functions it calls ends the invocation with None
BodyRaises ==
    /\ cpc \in {"sheet", "summary"}
    /\ outcome' = [NoOutcome EXCEPT !.returned = "None"]
    /\ Returned
    /\ UNCHANGED <<drive, emails, mail_self, cruns, pure, self_stats, store_side>>

CoordNext ==
    \/ \E searchOk \in BOOLEAN, found \in SeqsUpTo(CoordEmails, MaxItems) :
           StartWorkflow(searchOk, found)
    \/ \E detailsOk \in BOOLEAN, messageOk \in BOOLEAN : ProcessEmail(detailsOk, messageOk)
    \/ FinishMail
    \/ MailRaises
    \/ \E agentOk \in BOOLEAN, listOk \in BOOLEAN, pdf \in SUBSET Range(drive) :
           \E r \in SheetReturns(Len(CandidateListing(agentOk, listOk, pdf))) :
               DriveToSheet(r, agentOk, listOk, pdf)
    \/ Summarize
    \/ BodyRaises

CoordSpec == CoordInit /\ [][CoordNext]_vars

(***************************************************************************)
(* Vocabulary of the properties.                                           *)
(***************************************************************************)
\* the positions inside the body of the document loop (lines 1057-1130)
LoopStates == {"download", "extract", "except", "append", "append_true", "append_false"}

\* row 1 of the store
HeaderOf(values) == IF values = <<>> THEN <<>> ELSE values[1]

\* a is a prefix of b
IsPrefix(a, b) == Len(a) <= Len(b) /\ SubSeq(b, 1, Len(a)) = a

\* the step ends the current document as Failed: files_failed grows by one,
\* nothing else is counted and the loop is at the next candidate or over
EndsFailed ==
    /\ stats' = [stats EXCEPT !.files_failed = @ + 1]
    /\ appended' = appended
    /\ idx' = idx + 1
    /\ pc' = IF idx' > Len(pdf_files) THEN "finish" ELSE "download"

\* the step ends the current document as Appended
EndsAppended ==
    /\ stats'.files_processed = stats.files_processed + 1
    /\ stats'.files_failed = stats.files_failed
    /\ appended' = Append(appended, pdf_files[idx])
    /\ idx' = idx + 1
    /\ pc' = IF idx' > Len(pdf_files) THEN "finish" ELSE "download"

(***************************************************************************)
(* Properties of the deduplication.                                        *)
(***************************************************************************)
\* C1: idempotence.  When the invocation before this one listed the folder
\* and ended with every listed file skipped or appended, and this invocation
\* lists the same folder (the model has no other writer), this invocation
\* appends zero rows.
SecondRunAppendsNothing ==
    (run >= 2 /\ prev_full /\ listed = folder) => stats.rows_added = 0

\* C2: at-most-once persistence across runs.  No file whose batch this
\* invocation appended has the name of a document whose batch an earlier
\* invocation appended.
AtMostOnceAcrossRuns ==
    NamesOf(appended) \cap ingested = {}

\* C3: the name is the identity inside a run.  Of the files of one listing
\* that share a name the store does not hold yet, at most one has its batch
\* appended in the invocation.
OneAppendPerName ==
    \A i, j \in 1..Len(appended) :
        (i < j /\ appended[i].name \notin present) => appended[i].name /= appended[j].name

\* C4: a listed file whose name is in the store's source_file column when
\* the invocation starts is never downloaded (so never extracted) in that
\* invocation, and files_skipped counts it.
PresentNeverTouched ==
    /\ \A i \in 1..Len(listed) : listed[i].name \in present => listed[i].id \notin touched
    /\ stats.files_skipped >= Cardinality({i \in 1..Len(listed) : listed[i].name \in present})

(***************************************************************************)
(* Properties of the document loop.                                        *)
(***************************************************************************)
\* C5: per-document failure isolation.  Inside the loop the documents before
\* the current one are each counted once, Appended or Failed; at the end of
\* the loop every candidate is; a step that leaves a document ends it as
\* Failed or as Appended and goes to the next candidate; each of the four
\* failure causes (no bytes downloaded, extraction out of attempts, zero
\* rows, append reported failure) ends the document as Failed; the loop is
\* never left before its last candidate.
FailureIsolation ==
    /\ [](pc \in LoopStates =>
             /\ idx \in 1..Len(pdf_files)
             /\ stats.files_processed + stats.files_failed = idx - 1
             /\ Len(appended) = stats.files_processed)
    /\ [](pc = "finish" =>
             /\ stats.files_processed + stats.files_failed = Len(pdf_files)
             /\ Len(appended) = stats.files_processed)
    /\ [][/\ pc \in LoopStates => pc' \in LoopStates \cup {"finish"}
          /\ (pc \in LoopStates /\ (idx' /= idx \/ stats' /= stats)) =>
                 (EndsFailed \/ EndsAppended)
          /\ (pc = "download" /\ pc' /= "extract") => EndsFailed
          /\ (pc = "except") => EndsFailed
          /\ (pc = "extract" /\ pc' \in {"download", "finish"}) => EndsFailed
          /\ (pc = "append_false") => EndsFailed]_vars

\* C5 witness: a run of two candidates is over, the first Failed and the
\* second Appended.
FailedThenAppended ==
    /\ pc = "finish"
    /\ Len(pdf_files) = 2
    /\ stats.files_failed = 1
    /\ appended = <<pdf_files[2]>>

\* C6: call counts of safe_extract.  Never more than 3 extraction calls for
\* one document; before the k-th call the k - 1 calls made all failed; the
\* call that succeeds is the last one (k calls in all when the k-th
\* succeeds); the failure "Extraction failed" is raised after exactly 3
\* calls, and its handler counts exactly one Failed document and goes on
\* with the next candidate.
SafeExtractCalls ==
    /\ [](calls.extract <= 3)
    /\ [](pc = "extract" => attempt \in 1..3 /\ calls.extract = attempt - 1)
    /\ []((pc = "except" /\ exc = "Extraction failed") => calls.extract = 3)
    /\ [][/\ (pc = "extract" /\ pc' = "append") => calls'.extract = attempt
          /\ (pc = "extract" /\ pc' = "except" /\ exc' = "AttributeError") =>
                 calls'.extract = attempt
          /\ (pc \in {"append", "append_true", "append_false"}) =>
                 (calls'.extract = calls.extract \/ calls' = NoCalls)
          /\ (pc = "except" /\ exc = "Extraction failed") => EndsFailed]_vars

\* C6 witness: the third extraction call of a document failed, and another
\* candidate is left.
ExtractionExhausted ==
    /\ pc = "except"
    /\ exc = "Extraction failed"
    /\ calls.extract = 3
    /\ idx < Len(pdf_files)

\* C7: append retry.  Never more than 3 append calls and 2 pauses for one
\* batch; a pause follows every failed call but the third; the call that
\* succeeds is the last one; failure is reported after exactly 3 failed
\* calls; on failure the document is counted Failed, rows_added,
\* files_processed and the store are unchanged, and the loop goes on with
\* the next candidate.
AppendRetryBounded ==
    /\ [](calls.append <= 3 /\ calls.pauses <= 2)
    /\ [](pc = "append" => attempt \in 1..3 /\ calls.append = attempt - 1
                                            /\ calls.pauses = calls.append)
    /\ [](pc = "append_true" => calls.append = attempt /\ calls.pauses = calls.append - 1)
    /\ [](pc = "append_false" => calls.append = 3 /\ calls.pauses = 2)
    /\ [][/\ (pc = "append_true") => (calls' = NoCalls /\ EndsAppended)
          /\ (pc = "append_false") => (EndsFailed /\ sheet' = sheet)]_vars

\* C7 witness: the third append call of a batch failed, and another
\* candidate is left.
AppendGaveUp ==
    /\ pc = "append_false"
    /\ calls.append = 3
    /\ calls.pauses = 2
    /\ idx < Len(pdf_files)

(***************************************************************************)
(* Properties of the header reconciliation.                                *)
(***************************************************************************)
\* C8: header widening is monotonic and order-preserving.  Over a
\* reconciliation of a store whose header is not empty, the header before is
\* a prefix of the header after, and what follows that prefix is the list of
\* the canonical columns the header before did not hold, in canonical order.
WideningMonotonic ==
    [][(pc = "headers" /\ pc' = "download" /\ HeaderOf(sheet) /= <<>>) =>
          /\ IsPrefix(HeaderOf(sheet), HeaderOf(sheet'))
          /\ SubSeq(HeaderOf(sheet'), Len(HeaderOf(sheet)) + 1, Len(HeaderOf(sheet')))
                 = MissingColumns(HeaderOf(sheet))]_vars

\* C9: reconciliation is a no-op on a complete header.  When the header of
\* the store holds every canonical column, a reconciliation issues no header
\* write and leaves the store as it is.
CompleteHeaderUntouched ==
    [][(pc = "headers" /\ pc' = "download" /\ HeaderOf(sheet) /= <<>>
           /\ MissingColumns(HeaderOf(sheet)) = <<>>) =>
          (hdr_writes' = hdr_writes /\ sheet' = sheet)]_vars

\* C10 as stated: every invocation reconciles the header, exactly once.  An
\* invocation that starts is at the reconciliation next.
EveryRunReconciles ==
    [][(run' /= run) => pc' = "headers"]_vars

\* C10, amended: an invocation reconciles the header at most once; one that
\* has a candidate left after filter and cap does so exactly once, before
\* any download, extraction or append of the invocation; one that has none
\* returns without reconciling and leaves the store as it is.
ReconciledOnceBeforeDocuments ==
    /\ [](recon <= 1)
    /\ [](pc = "headers" =>
             recon = 0 /\ touched = {} /\ appended = <<>> /\ calls = NoCalls)
    /\ [](pc \in LoopStates \cup {"finish"} => recon = 1)
    /\ [][/\ (run' /= run) =>
                 \/ pc' = "headers" /\ pdf_files' /= <<>>
                 \/ pc' = "idle" /\ pdf_files' = <<>> /\ sheet' = sheet
          /\ (pc /= "headers") => recon' \in {recon, 0}]_vars

\* C10 witness: the header was reconciled once and the first candidate is
\* about to be downloaded.
ReconciledBeforeFirstDownload ==
    /\ pc = "download"
    /\ idx = 1
    /\ recon = 1
    /\ touched = {}
    /\ calls = NoCalls

(***************************************************************************)
(* Properties of the batches.                                              *)
(***************************************************************************)
\* the positions at which the batch of the current document exists
BatchStates == {"append", "append_true", "append_false"}

\* C11: no column is omitted from a persisted row.  The batch has one vector
\* per normalized row; every vector has as many entries as the header list
\* of the run; entry j is the row's value for header j when the header cell
\* is a key of the row, and the empty string otherwise; the vectors go to
\* the store as they are.
NoColumnOmitted ==
    /\ [](pc \in BatchStates =>
             /\ Len(sheet_rows) = Len(all_rows)
             /\ \A i \in 1..Len(sheet_rows) :
                   /\ Len(sheet_rows[i]) = Len(headers)
                   /\ \A j \in 1..Len(headers) :
                         sheet_rows[i][j] =
                             IF ~headers[j].ws /\ headers[j].s \in DOMAIN all_rows[i]
                             THEN all_rows[i][headers[j].s]
                             ELSE Empty)
    /\ [][(pc = "append" /\ pc' = "append_true") =>
             /\ Len(sheet') = Len(sheet) + Len(sheet_rows)
             /\ \A i \in 1..Len(sheet_rows) : sheet'[Len(sheet) + i] = sheet_rows[i]]_vars

\* C11 witness: a batch of three vectors is about to be appended under a
\* header list that begins with a column outside the canonical set; the
\* first vector is empty there and holds the file's name under source_file.
BatchUnderForeignColumn ==
    /\ pc = "append"
    /\ Len(sheet_rows) = 3
    /\ headers[1] = S("legacy")
    /\ sheet_rows[1][1] = Empty
    /\ \E j \in 1..Len(headers) :
           headers[j] = S("source_file") /\ sheet_rows[1][j] = Strip(pdf_files[idx].name)

\* the elements of a are elements of b, in the order they have in b
RECURSIVE InOrder(_, _)
InOrder(a, b) ==
    IF a = <<>> THEN TRUE
    ELSE IF b = <<>> THEN FALSE
    ELSE IF Head(a) = Head(b) THEN InOrder(Tail(a), Tail(b))
    ELSE InOrder(a, Tail(b))

\* the ids of the first n candidates
IdsUpTo(n) == {pdf_files[i].id : i \in 1..n}

\* C12: ordering within a run.  The candidates are in listing order; the
\* documents downloaded so far are the candidates up to the current one; the
\* documents appended so far are, in candidate order, among the candidates
\* before the current one; every row of the batch in hand belongs to the
\* current candidate; the loop moves by one candidate at a time, and from
\* the first append call of a batch to the result of the append no step is
\* about another document; the store changes only by the batch of the
\* current candidate going below its rows in one piece.
ListingOrderKept ==
    /\ [](pc /= "idle" => InOrder(pdf_files, listed))
    /\ [](pc \in LoopStates =>
             /\ touched = IdsUpTo(IF pc = "download" THEN idx - 1 ELSE idx)
             /\ InOrder(appended, SubSeq(pdf_files, 1, idx - 1)))
    /\ [](pc = "finish" => touched = IdsUpTo(Len(pdf_files)) /\ InOrder(appended, pdf_files))
    /\ [](pc \in BatchStates =>
             \A i \in 1..Len(all_rows) :
                 all_rows[i]["drive_file_id"] = S(pdf_files[idx].id))
    /\ [][/\ pc \in LoopStates => (idx' \in {idx, idx + 1} /\ pdf_files' = pdf_files)
          /\ pc = "append" => (pc' \in BatchStates /\ idx' = idx /\ sheet_rows' = sheet_rows)
          /\ pc \in {"extract", "except"} \cup BatchStates => touched' = touched
          /\ (pc \in LoopStates /\ sheet' /= sheet) =>
                 (pc = "append" /\ sheet' = sheet \o sheet_rows)]_vars

\* C12 witness: a run whose two candidates are the two files of the listing
\* is over, and both were appended, the first listed first.
BothAppendedInListingOrder ==
    /\ pc = "finish"
    /\ Len(listed) = 2
    /\ pdf_files = listed
    /\ appended = listed

MapGivesAtLeastOneRow ==
    (fn = "normalize" /\ arg.data.t = "dict") =>
        (~result.raised /\ Len(result.rows) >= 1)

\* the keys create_base_row reads under their own name before any alias
DirectKeys ==
    {"grn_date", "supplier", "po_number", "shipping_address", "vendor_invoice_number",
     "item_description", "rcv_qty", "ord_qty", "uom", "sku", "hsn_code", "unit_cost",
     "tax_amount", "tax_percentage", "mrp", "net_value"}

\* C15: single-row outcome.  The normalization of a map that has none of
\* the item-container keys gives exactly one row, the row create_base_row
\* builds from the whole map: it carries the file's name and id, and the
\* cleaned value of every key of the map that is a column read under its
\* own name.
SingleRowFromWholeMap ==
    (fn = "normalize" /\ arg.data.t = "dict"
        /\ DOMAIN arg.data.m \cap Range(ItemKeys) = {}) =>
        /\ ~result.raised
        /\ Len(result.rows) = 1
        /\ result.rows[1] = create_base_row(arg.data.m, PureFile)
        /\ result.rows[1]["source_file"] = Strip(PureFile.name)
        /\ result.rows[1]["drive_file_id"] = S(PureFile.id)
        /\ \A k \in DOMAIN arg.data.m \cap DirectKeys :
               result.rows[1][k] = Clean(arg.data.m[k])

\* C15 witness: a map with document-level keys and no item container was
\* normalized into one row whose supplier came from vendor_name.
WholeMapRow ==
    /\ fn = "normalize"
    /\ arg.data.t = "dict"
    /\ DOMAIN arg.data.m = {"vendor_name", "date", "quantity"}
    /\ Len(result.rows) = 1
    /\ result.rows[1]["supplier"] = S("Acme")
    /\ result.rows[1]["ord_qty"] = S("2")

\* the number of rows the chunks before chunk i resolve to, each on its own
RECURSIVE RowsBefore(_, _)
RowsBefore(chunks, i) ==
    IF i = 1 THEN 0
    ELSE RowsBefore(chunks, i - 1)
         + Len(process_extracted_data(chunks[i - 1].m, PureFile))

\* C16: no row loss across concatenation.  For a list of N maps the rows of
\* the document are the rows of map 1, then those of map 2, and so on: the
\* rows of map i stand, in their order, behind the rows of the maps before
\* it, and the number of rows is the sum of the k_i.
ChunkRowsConcatenated ==
    (fn = "normalize" /\ arg.data.t = "list"
        /\ \A i \in 1..Len(arg.data.l) : arg.data.l[i].t = "dict") =>
        LET chunks == arg.data.l
        IN /\ ~result.raised
           /\ Len(result.rows) = RowsBefore(chunks, Len(chunks) + 1)
           /\ \A i \in 1..Len(chunks) :
                  LET own == process_extracted_data(chunks[i].m, PureFile)
                  IN \A r \in 1..Len(own) :
                         result.rows[RowsBefore(chunks, i) + r] = own[r]

\* C16 witness: a list of two maps, the first resolving to one row and the
\* second to two, was normalized into three rows.
ThreeRowsOfTwoChunks ==
    /\ fn = "normalize"
    /\ arg.data.t = "list"
    /\ Len(arg.data.l) = 2
    /\ arg.data.l[1] = PyDict("vendor_name" :> S("Acme"))
    /\ RowsBefore(arg.data.l, 2) = 1
    /\ RowsBefore(arg.data.l, 3) = 3
    /\ Len(result.rows) = 3
    /\ result.rows[1]["supplier"] = S("Acme")
    /\ result.rows[2]["ord_qty"] = S("5")

\* the alias chain of every item-level column of process_extracted_data
ItemChains ==
    ("item_description" :>
        <<"item_description", "description", "product_description", "product_name">>) @@
    ("rcv_qty" :> <<"rcv_qty", "received_quantity", "received_qty">>) @@
    ("ord_qty" :> <<"ord_qty", "ordered_quantity", "ordered_qty", "quantity", "qty">>) @@
    ("ord.qty" :> <<"ord.qty", "ord_qty", "ordered_quantity">>) @@
    ("uom" :> <<"uom", "unit_of_measure", "unit">>) @@
    ("sku" :> <<"sku", "sku_code", "item_code">>) @@
    ("variant_ean" :> <<"variant_ean", "ean", "barcode">>) @@
    ("variant.ean" :> <<"variant.ean", "ean", "barcode">>) @@
    ("hsn_code" :> <<"hsn_code", "hsn", "tax_code">>) @@
    ("unit_cost" :> <<"unit_cost", "unit_price", "price_per_unit", "rate">>) @@
    ("tax_amount" :> <<"tax_amount", "tax">>) @@
    ("tax amount" :> <<"tax amount", "tax_amount", "tax">>) @@
    ("tax_percentage" :> <<"tax_percentage", "tax_percent", "tax_rate">>) @@
    ("mrp" :> <<"mrp", "maximum_retail_price", "retail_price">>) @@
    ("net_value" :> <<"net_value", "net_amount", "total_amount", "amount">>)

\* the alias chain of every document-level column of process_extracted_data
DocChains ==
    ("grn_date" :> <<"grn_date", "date", "document_date">>) @@
    ("grndate" :> <<"grn_date", "date", "document_date">>) @@
    ("supplier" :> <<"supplier", "vendor_name", "vendor">>) @@
    ("po_number" :> <<"po_number", "purchase_order_number", "po_no">>) @@
    ("shipping_address" :> <<"shipping_address", "delivery_address", "address">>) @@
    ("vendor_invoice_number" :>
        <<"vendor_invoice_number", "invoice_number", "invoice_no">>)

\* the items of a map payload when it has an item list of maps only, else <<>>
MapItems(data) ==
    IF data.t /= "dict" THEN <<>>
    ELSE LET items == FindItems(data.m, ItemKeys)
         IN IF \A i \in 1..Len(items) : items[i].t = "dict" THEN items ELSE <<>>

\* the value of the first key of the chain that is present with a value
\* other than None, else the empty string
RECURSIVE FirstPresentValue(_, _)
FirstPresentValue(d, chain) ==
    IF chain = <<>> THEN Empty
    ELSE IF Head(chain) \in DOMAIN d /\ d[Head(chain)].t /= "none" THEN d[Head(chain)]
    ELSE FirstPresentValue(d, Tail(chain))

\* C17: Field Aliaser priority.  In the row of an item every item-level
\* column holds the cleaned value of the first key of its alias chain that
\* the item has with a value other than None, and every document-level
\* column the same for the document; the empty string when no key of the
\* chain is present with a value.
AliasPriority ==
    (fn = "normalize" /\ MapItems(arg.data) /= <<>>) =>
        LET items == MapItems(arg.data)
        IN /\ Len(result.rows) = Len(items)
           /\ \A j \in 1..Len(items) :
                  /\ \A c \in DOMAIN ItemChains :
                         result.rows[j][c]
                             = Clean(FirstPresentValue(items[j].m, ItemChains[c]))
                  /\ \A c \in DOMAIN DocChains :
                         result.rows[j][c]
                             = Clean(FirstPresentValue(arg.data.m, DocChains[c]))

\* C18: the legacy duplicate columns mirror their canonical column in every
\* emitted row.
LegacyColumnsMirror ==
    (fn = "normalize" /\ ~result.raised) =>
        \A i \in 1..Len(result.rows) :
            /\ result.rows[i]["ord.qty"] = result.rows[i]["ord_qty"]
            /\ result.rows[i]["variant.ean"] = result.rows[i]["variant_ean"]
            /\ result.rows[i]["tax amount"] = result.rows[i]["tax_amount"]
            /\ result.rows[i]["grndate"] = result.rows[i]["grn_date"]

\* the columns every row of one document shares
SharedColumns ==
    {"grn_date", "supplier", "po_number", "shipping_address", "vendor_invoice_number",
     "source_file", "drive_file_id"}

\* C19: document-level fields are shared, item-level fields are not.  A map
\* with an item list of n maps gives n rows, row j for item j; every row
\* carries the same document-level values, resolved from the document, and
\* the file's name and id; every item column of row j is resolved from item
\* j alone; {line_items: [{qty: 5}, {sku: X1}]} gives two rows with ord_qty
\* "5" and "".
DocFieldsShared ==
    (fn = "normalize" /\ MapItems(arg.data) /= <<>>) =>
        LET items == MapItems(arg.data)
            rows == result.rows
        IN /\ ~result.raised
           /\ Len(rows) = Len(items)
           /\ \A j \in 1..Len(items) :
                  /\ \A c \in SharedColumns : rows[j][c] = rows[1][c]
                  /\ \A c \in DOMAIN DocChains :
                         rows[j][c] = Clean(GetChain(arg.data.m, DocChains[c]))
                  /\ rows[j]["source_file"] = Strip(PureFile.name)
                  /\ rows[j]["drive_file_id"] = S(PureFile.id)
                  /\ \A c \in DOMAIN ItemChains :
                         rows[j][c] = Clean(GetChain(items[j].m, ItemChains[c]))
           /\ (items = <<PyDict("qty" :> PyInt(5)), PyDict("sku" :> S("X1"))>>) =>
                  /\ Len(rows) = 2
                  /\ rows[1]["ord_qty"] = S("5") /\ rows[1]["sku"] = Empty
                  /\ rows[2]["ord_qty"] = Empty /\ rows[2]["sku"] = S("X1")

\* C19 witness: the payload {vendor_name, date, quantity, line_items:
\* [{qty: 5}, {sku: X1}]} was normalized into two rows of the same supplier.
TwoItemRows ==
    /\ fn = "normalize"
    /\ MapItems(arg.data) = <<PyDict("qty" :> PyInt(5)), PyDict("sku" :> S("X1"))>>
    /\ "line_items" \in DOMAIN arg.data.m
    /\ Len(result.rows) = 2
    /\ result.rows[1]["supplier"] = S("Acme")
    /\ result.rows[2]["supplier"] = S("Acme")
    /\ result.rows[1]["ord_qty"] = S("5")
    /\ result.rows[2]["ord_qty"] = Empty

\* the positions of the source_file column in the header of a sheet
NamePositions(values) ==
    IF values = <<>> THEN {}
    ELSE {p \in 1..Len(values[1]) : values[1][p] = S("source_file")}

\* C20: Dedup Index build.  When the read of the store returned, the index
\* is exactly the set of non-empty values at the position of the source_file
\* column in the rows below the header, a row too short to reach the position
\* contributing nothing; for an empty store or a header without source_file
\* the index is the empty set, returned and not raised.
IndexIsNamesColumn ==
    (fn = "index") =>
        LET values == arg.values
            P == NamePositions(values)
        IN IF P = {} THEN result = {}
           ELSE LET p == CHOOSE x \in P : \A y \in P : x <= y
                IN /\ \A r \in 2..Len(values) :
                          (Len(values[r]) >= p /\ values[r][p] /= Empty)
                              => values[r][p] \in result
                   /\ \A n \in result :
                          /\ n /= Empty
                          /\ \E r \in 2..Len(values) :
                                 Len(values[r]) >= p /\ values[r][p] = n

\* C20 witness: the index was built from a sheet with a row too short to
\* reach the source_file column and a row naming a.pdf.
IndexOverShortRow ==
    /\ fn = "index"
    /\ arg.values = <<<<S("legacy"), S("source_file")>>, <<S("r")>>, <<S("r"), S("a.pdf")>>>>
    /\ result = {S("a.pdf")}

(***************************************************************************)
(* Properties of the item-container selection.                             *)
(***************************************************************************)
\* the candidate keys in their fixed order
ContainerOrder == <<"items", "product_items", "line_items", "products", "grn_items">>

\* the positions in ContainerOrder of the keys of d that hold a sequence
HoldingSequence(d) ==
    {i \in 1..Len(ContainerOrder) :
        ContainerOrder[i] \in DOMAIN d /\ d[ContainerOrder[i]].t = "list"}

\* C30: Item-container selection.  The item list of a map payload is the
\* value of the first key, in the order items, product_items, line_items,
\* products, grn_items, that is present and holds a sequence: a present key
\* holding something else is passed over, no key behind the first one holding
\* a sequence is consulted (not even when that sequence is empty), and the
\* rows are the rows of that list.
FirstSequenceKeySelected ==
    (fn = "normalize" /\ arg.data.t = "dict") =>
        LET d == arg.data.m
            H == HoldingSequence(d)
            chosen == IF H = {} THEN <<>>
                      ELSE d[ContainerOrder[CHOOSE i \in H : \A j \in H : i <= j]].l
        IN /\ ~result.raised
           /\ result.rows = IF chosen = <<>> THEN <<create_base_row(d, PureFile)>>
                            ELSE ItemRows(DocData(d), chosen, PureFile)

\* C30 witness: items holds a value that is no sequence and product_items a
\* list of one item; the row is the row of that item.
LaterContainerTaken ==
    /\ fn = "normalize"
    /\ arg.data = PyDict(("items" :> S("n/a"))
                         @@ ("product_items" :> PyList(<<PyDict("sku" :> S("X1"))>>)))
    /\ Len(result.rows) = 1
    /\ result.rows[1]["sku"] = S("X1")

(***************************************************************************)
(* Properties of the counting of documents.                                *)
(***************************************************************************)
\* C29: Non-map items are dropped silently.  When the extraction of a
\* document returns a map payload whose item list holds m map items and n
\* non-map items (m + n >= 1), the step that normalizes it does not count the
\* document in files_failed, and exactly m rows come from the items.
NonMapItemsNotFailed ==
    [][\A data \in Payloads :
          (/\ data.t = "dict"
           /\ FindItems(data.m, ItemKeys) /= <<>>
           /\ Extract(TRUE, data))
          => /\ stats'.files_failed = stats.files_failed
             /\ Len(all_rows') = Len(SelectSeq(FindItems(data.m, ItemKeys),
                                               LAMBDA x : x.t = "dict"))]_vars

(***************************************************************************)
(* Properties of the run statistics.                                       *)
(***************************************************************************)
\* C26: RunStats belong to one run.  When an invocation of the pipeline has
\* returned, the sheet counts the coordinator reads from self.stats for its
\* summary are the counts this invocation produced and returned; no count of
\* the invocation before is left in them.
SummaryCountsOfOwnRun ==
    (pc = "idle" /\ run > 0) => self_stats = stats

(***************************************************************************)
(* Properties of the run setup.                                            *)
(***************************************************************************)
\* C27: Unreachable store at run setup aborts the run's remaining work.  A
\* setup step in which the store read that builds the Dedup Index fails ends
\* the invocation: it does not go on to the documents with an empty index.
UnreachableStoreAborts ==
    [][\A listOk \in BOOLEAN : StartRun(TRUE, FALSE, listOk) => pc' = "idle"]_vars

(***************************************************************************)
(* Properties of a single instance.                                        *)
(***************************************************************************)
\* the store holds a row of the document with the Drive id id
RowsInStore(id) == \E r \in 2..Len(sheet) : S(id) \in Range(sheet[r])

\* C28: Accepted race between instances, the part about one instance: with
\* a single instance the rows of one document are never appended twice, so
\* no batch is appended for a document of which the store holds rows.
SingleInstanceAppendsOnce ==
    [][(pc = "append" /\ pc' = "append_true") => ~RowsInStore(pdf_files[idx].id)]_vars

(***************************************************************************)
(* Properties of the file names of the Harvester.                          *)
(***************************************************************************)
\* C23: Filename sanitization scenario.  sanitize_filename applied to
\* GRN#2024/01.pdf returns GRN_2024_01.pdf.
ScenarioSanitized ==
    (fn = "sanitize" /\ arg.name = ScenarioName) =>
        result = <<"G", "R", "N", "_", "2", "0", "2", "4", "_", "0", "1", ".", "p", "d", "f">>

\* s ends with e
EndsWith(s, e) == Len(e) <= Len(s) /\ SubSeq(s, Len(s) - Len(e) + 1, Len(s)) = e

\* C24: Sanitized name length.  For every file name the result of
\* sanitize_filename has at most 100 characters and, when the name has an
\* extension (the text behind its last dot), ends with that extension.
SanitizedNameBounded ==
    (fn = "sanitize") =>
        /\ Len(result) <= NameCap
        /\ LastDot(arg.name) > 0 => EndsWith(result, Extension(arg.name))

(***************************************************************************)
(* Properties of the Harvester's walk over a payload tree.                 *)
(***************************************************************************)
\* what the calls for the parts of a container return, one after the other,
\* each with the folder the call before left
RECURSIVE ChildResults(_, _, _)
ChildResults(parts, attachment_filter, files) ==
    IF parts = <<>> THEN <<>>
    ELSE LET r == extract_attachments_from_email(Head(parts), attachment_filter, files)
         IN <<r>> \o ChildResults(Tail(parts), attachment_filter, r.files)

\* the component-wise sum of the stats of a sequence of results
RECURSIVE SumOfStats(_)
SumOfStats(rs) ==
    IF rs = <<>> THEN ZeroPartStats ELSE AddStats(Head(rs).stats, SumOfStats(Tail(rs)))

\* the attachments of a tree: the leaves the walk processes
RECURSIVE Attachments(_)
RECURSIVE AttachmentsOf(_)
AttachmentsOf(parts) ==
    IF parts = <<>> THEN 0 ELSE Attachments(Head(parts)) + AttachmentsOf(Tail(parts))

Attachments(payload) ==
    IF payload.has_parts THEN AttachmentsOf(payload.parts)
    ELSE IF IsAttachment(payload) THEN 1 ELSE 0

\* C21: Harvester aggregation is additive.  The stats returned for a
\* container are the component-wise sum of the stats returned for its parts;
\* a processed leaf adds 1 to total and to exactly one of success, skipped,
\* failed; at every node total = success + skipped + failed, and total is the
\* number of attachments under the node.
HarvestAdditive ==
    (fn = "harvest") =>
        LET st == result.stats
        IN /\ st.total = st.success + st.skipped + st.failed
           /\ st.total = Attachments(arg.tree)
           /\ arg.tree.has_parts =>
                  st = SumOfStats(ChildResults(arg.tree.parts, arg.name, arg.files))
           /\ (~arg.tree.has_parts /\ IsAttachment(arg.tree)) =>
                  /\ st.total = 1
                  /\ {st.success, st.skipped, st.failed} = {0, 1}

\* C21 witness: a container of a container (one attachment uploaded, one
\* without data) and an attachment the filter skips returned 1 + 1 + 1 = 3.
NestedTreeSummed ==
    /\ fn = "harvest"
    /\ arg.tree = Node(<<Node(<<Leaf(GrnName, "data", "ok"), Leaf(GrnName, "empty", "ok")>>),
                         Leaf(InvName, "data", "ok")>>)
    /\ arg.name = <<"g", "r", "n">>
    /\ result.stats = [success |-> 1, skipped |-> 1, failed |-> 1, total |-> 3]

(***************************************************************************)
(* Properties of the Harvester's uploads and of the Run Coordinator.       *)
(***************************************************************************)
\* the target folder holds no name twice
NoDuplicateNames == \A i, j \in 1..Len(drive) : i /= j => drive[i] /= drive[j]

\* the payload is one attachment that is accepted, downloaded and meets no
\* failing Drive call
AcceptedLeaf(payload) ==
    /\ ~payload.has_parts
    /\ IsAttachment(payload)
    /\ payload.fetch = "data"
    /\ payload.upload = "ok"

\* C22: Storage-level dedup in the Harvester.  An accepted leaf whose
\* sanitized name is in the target folder triggers no upload and is counted
\* as a success; and the folder, which started without duplicate names,
\* never holds two files with the same name.
StorageLevelDedup ==
    /\ []NoDuplicateNames
    /\ [][(/\ ProcessEmail(TRUE, TRUE)
           /\ Head(emails).has_payload
           /\ AcceptedLeaf(Head(emails).tree)
           /\ sanitize_filename(Head(emails).tree.filename) \in Range(drive)
           /\ Contains(Upper(Head(emails).subject), <<"G", "R", "N">>)
           /\ ~Contains(Upper(Head(emails).subject), <<"G", "D", "N">>))
          => /\ drive' = drive
             /\ total_stats' = [total_stats EXCEPT !.total_attachments = @ + 1,
                                                   !.successful_uploads = @ + 1]]_vars

\* C22 witness: two attachments were counted as uploaded and the folder,
\* empty before, holds one file: the second had the sanitized name of the
\* first.
SecondUploadSkipped ==
    /\ cpc = "mail"
    /\ cruns = 1
    /\ total_stats.successful_uploads = 2
    /\ drive = <<sanitize_filename(SlashName)>>

\* C25: The Run Coordinator always yields a stats structure.  Whatever
\* run_scheduled_workflow returned is a summary structure, never an absent
\* value.
AlwaysASummary ==
    outcome.returned \in {"nothing", "summary"}

(***************************************************************************)
(* Properties of the single-row path.                                      *)
(***************************************************************************)
\* C31: Alias chains do not depend on the payload shape.  The single row
\* produced for a map M without an item container has in every column the
\* value of the row produced with M as the document map and M as the only
\* item.
SingleRowUsesFullChains ==
    (fn = "normalize" /\ arg.data.t = "dict" /\ HoldingSequence(arg.data.m) = {}) =>
        result.rows =
            <<CleanRow(ItemRowRaw(DocData(arg.data.m), arg.data.m, PureFile))>>

(***************************************************************************)
(* Properties of the header under a failing store.                         *)
(***************************************************************************)
\* C33: A failed header read never damages the header.  When the header read
\* raises while the store holds a non-empty header, the reconciliation leaves
\* the stored header unchanged or extends it at its end.
FailedReadKeepsHeader ==
    [][\A writeOk \in BOOLEAN :
          (HeaderOf(sheet) /= <<>> /\ Reconcile(FALSE, writeOk)) =>
              IsPrefix(HeaderOf(sheet), HeaderOf(sheet'))]_vars

\* C36: Row vectors match the stored header.  Whenever a batch is appended,
\* the header list the batch was laid out by equals the header row the store
\* holds; no batch is appended in a layout the store's header does not
\* describe, a failed header write included.
BatchMatchesStoredHeader ==
    [][(pc = "append" /\ pc' = "append_true") => headers = HeaderOf(sheet)]_vars

(***************************************************************************)
(* Properties of a document that failed.                                   *)
(***************************************************************************)
\* C39: Failure leaves no trace in dedup state.  A document that ends a run
\* as Failed has added no row, so its name is not in the Dedup Index the next
\* run builds from the store.
FailedLeavesNoTrace ==
    pc = "finish" =>
        \A i \in 1..Len(pdf_files) :
            pdf_files[i] \notin Range(appended) =>
                pdf_files[i].name \notin get_existing_source_files(sheet, TRUE)

(***************************************************************************)
(* Properties of the Run Coordinator's sequencing.                         *)
(***************************************************************************)
\* the step is an invocation of the pipeline by the Run Coordinator
PipelineStarts(agentOk, listOk, pdf) ==
    \E r \in SheetReturns(Len(CandidateListing(agentOk, listOk, pdf))) :
        DriveToSheet(r, agentOk, listOk, pdf)

Eligible(subject) ==
    /\ Contains(Lower(subject), <<"g", "r", "n">>)
    /\ ~Contains(Lower(subject), <<"g", "d", "n">>)

\* C35: Subject eligibility in the Harvester.  The pass of the loop over a
\* message whose subject is not eligible fetches and uploads nothing and
\* counts none of its attachments: the folder and the totals stay as they
\* are; a pass that adds a file to the folder or counts an attachment is the
\* pass over an eligible message.
IneligiblePassedOver ==
    [][\A detailsOk \in BOOLEAN, messageOk \in BOOLEAN :
          (ProcessEmail(detailsOk, messageOk) /\ ~Eligible(Head(emails).subject)) =>
              (drive' = drive /\ total_stats' = total_stats)]_vars

\* C35 witness: the loop has been through a message with an attachment
\* whose subject holds GRN and gdn, and nothing is counted or uploaded.
GdnMessagePassedOver ==
    /\ cpc = "mail"
    /\ Len(seen) = 1
    /\ Contains(seen[1].subject, <<"G", "R", "N">>)
    /\ ~Eligible(seen[1].subject)
    /\ IsAttachment(seen[1].tree)
    /\ total_stats = ZeroTotals
    /\ uploaded = {}

\* C38: Harvester stats at workflow level.  In what the Harvester returns,
\* attachments_found = attachments_uploaded + attachments_skipped +
\* upload_failed.
HarvesterCountsAddUp ==
    cpc \in {"sheet", "summary"} =>
        mail_stats.attachments_found =
            mail_stats.attachments_uploaded + mail_stats.attachments_skipped
                + mail_stats.upload_failed

(***************************************************************************)
(* Properties of the filter, of the cap and of the pipeline's counts.      *)
(***************************************************************************)
\* the positions of the listing whose file is not in the Dedup Index
KeptPositions == {i \in 1..Len(listed) : listed[i].name \notin existing_names}

\* the k-th of these positions
KeptPosition(k) ==
    CHOOSE i \in KeptPositions : Cardinality({j \in KeptPositions : j < i}) = k - 1

\* the number of filtered candidates the cap cut off
CutByCap == Cardinality(KeptPositions) - Len(pdf_files)

\* an invocation returns before the loop
ReturnsEarly == pc = "idle" /\ run' /= run /\ pc' = "idle"

\* C32: Filter before cap, both order-preserving.  The candidates of an
\* invocation are the first max_files files of the listing that are not in
\* the Dedup Index, in listing order; files_skipped counts the files in the
\* index, so they do not use up the cap; the documents attempted are the
\* candidates, and at the end of the loop each candidate is counted processed
\* or failed, so that a file cut by the cap is neither attempted nor counted.
FilterBeforeCap ==
    /\ [](pc /= "idle" =>
             /\ Len(pdf_files) = Min(max_files, Cardinality(KeptPositions))
             /\ \A k \in 1..Len(pdf_files) : pdf_files[k] = listed[KeptPosition(k)]
             /\ stats.files_skipped = Len(listed) - Cardinality(KeptPositions)
             /\ touched \subseteq IdsUpTo(Len(pdf_files)))
    /\ [](pc = "finish" =>
             /\ touched = IdsUpTo(Len(pdf_files))
             /\ stats.files_processed + stats.files_failed = Len(pdf_files))

\* C32 witness: the second invocation is over; the first file of the listing
\* was filtered and the second one, under a cap of one file, was attempted.
FilteredFileLeftTheCap ==
    /\ pc = "finish"
    /\ max_files = CapFiles
    /\ Len(listed) = 2
    /\ stats.files_skipped = 1
    /\ pdf_files = <<listed[2]>>
    /\ touched = {listed[2].id}

\* C37: Pipeline stats accounting.  At the end of an invocation files_found =
\* files_skipped + files_processed + files_failed + the number of filtered
\* candidates cut by the cap; the counters are not negative; files_skipped
\* counts the files in the Dedup Index and no other; rows_added is the number
\* of rows of the batches that were appended.
StatsAccounting ==
    /\ [](/\ stats.files_found >= 0 /\ stats.files_skipped >= 0
          /\ stats.files_processed >= 0 /\ stats.files_failed >= 0
          /\ stats.rows_added >= 0)
    /\ [](pc = "finish" =>
             /\ stats.files_found =
                    stats.files_skipped + stats.files_processed + stats.files_failed + CutByCap
             /\ stats.files_skipped =
                    Cardinality({i \in 1..Len(listed) : listed[i].name \in existing_names})
             /\ stats.files_processed = Len(appended)
             /\ stats.rows_added = written)
    /\ [][ReturnsEarly =>
             /\ stats'.files_found = stats'.files_skipped
             /\ stats'.files_processed = 0 /\ stats'.files_failed = 0
             /\ stats'.rows_added = 0]_vars

\* C37 witness: an invocation with two filtered candidates and a cap of one
\* ends with one file failed and one cut by the cap.
OneFailedOneCut ==
    /\ pc = "finish"
    /\ stats.files_found = 2
    /\ stats.files_failed = 1
    /\ stats.files_skipped = 0
    /\ CutByCap = 1

(***************************************************************************)
(* Progress over repeated invocations.                                     *)
(***************************************************************************)
\* the names the store holds in its source_file column
StoredNames == get_existing_source_files(sheet, TRUE)

\* C40: No starvation under the cap.  With the listing unchanged and the
\* pipeline invoked again and again, every listed document that is not in
\* the store is attempted by some invocation (or gets into the store).
NoStarvation ==
    \A i \in 1..Len(AllFiles) :
        (AllFiles[i] \in Range(folder) /\ AllFiles[i].name \notin StoredNames)
            ~> (AllFiles[i].id \in touched \/ AllFiles[i].name \in StoredNames)

====
